---- MODULE Spec2Model ----
(***************************************************************************)
(* A model of libmnl: the netlink message framer (src/src/nlmsg.c), the    *)
(* attribute codec (src/src/attr.c) and the callback run queue             *)
(* (src/src/callback.c).                                                   *)
(*                                                                         *)
(* Memory is an array of bytes.  A 32-bit quantity is kept as its bit      *)
(* pattern read as a two's complement number (I32Min..I32Max): an unsigned *)
(* 32-bit value u >= 2^31 is the pattern u - 2^32.  Every operation on     *)
(* such a value wraps modulo 2^32.                                         *)
(***************************************************************************)
EXTENDS Integers, Sequences, FiniteSets, TLC

VARIABLES
    abi,              \* the build: data model and byte order
    mem,              \* the caller's buffer, a function 0..(size-1) -> 0..255
    pc,               \* position of mnl_cb_run2: "idle", "loop", "done", "crash"
    nlh,              \* mnl_cb_run2: cursor, [far, off] relative to buf
    numbytes,         \* mnl_cb_run2: the size_t parameter, as two 32-bit halves
    ret,              \* mnl_cb_run2: local ret, returned at "done"
    errno,            \* the C library's errno
    seq,              \* mnl_cb_run2: expected sequence number
    portid,           \* mnl_cb_run2: expected port id
    cb_data,          \* mnl_cb_run2: TRUE iff a data handler was supplied
    cb_ctl_array,     \* mnl_cb_run2: "null" or a function index -> BOOLEAN
    cb_ctl_array_len, \* mnl_cb_run2: the length the caller passed
    numbytes0,        \* ghost: the numbytes the caller passed
    examined,         \* ghost: headers that passed mnl_nlmsg_ok, in order
    handled,          \* ghost: handler invocations, in order
    call,             \* a call of a pure function: [f, a]
    result,           \* its result: [done, val]
    build,            \* the builder: [pc, offset, puts], puts a ghost log
    walk,             \* mnl_attr_parse / mnl_attr_parse_nested: its frame
    visited           \* ghost: the callback invocations of the walk, in order

runVars == <<pc, nlh, numbytes, ret, errno, seq, portid, cb_data,
             cb_ctl_array, cb_ctl_array_len, numbytes0, examined, handled>>
fnVars == <<call, result>>
attrVars == <<build, walk, visited>>
vars == <<abi, mem, runVars, fnVars, attrVars>>

---------------------------------------------------------------------------
(* Program constants *)

NLMSG_NOOP ==
    1
NLMSG_ERROR ==
    2
NLMSG_DONE ==
    3
NLMSG_OVERRUN ==
    4
NLMSG_MIN_TYPE ==
    16
MNL_ALIGNTO ==
    4
MNL_CB_ERROR ==
    -1
MNL_CB_STOP ==
    0
MNL_CB_OK ==
    1
EINVAL ==
    22
EILSEQ ==
    84
EBADMSG ==
    74
SizeofNlmsgerr ==
    20
SizeofNlmsghdr ==
    16
SizeofNlattr ==
    4
NLA_F_NESTED ==
    32768
NLA_TYPE_MASK ==
    16383
I32Max ==
    2147483647
I32Min ==
    -I32Max - 1

(* The builds the library is compiled for *)
Abis == {"ilp32le", "lp64le", "lp64be"}
BigEndian(a) == a = "lp64be"

---------------------------------------------------------------------------
(* 32-bit arithmetic on bit patterns *)

Add32(a, b) ==
    IF a >= 0 /\ b >= 0 /\ a > I32Max - b THEN (a + I32Min) + (b + I32Min)
    ELSE IF a < 0 /\ b < 0 /\ a < I32Min - b THEN (a - I32Min) + (b - I32Min)
    ELSE a + b


Sub32(a, b) == IF b = I32Min THEN Add32(Add32(a, I32Max), 1) ELSE Add32(a, -b)

(* unsigned comparison of two patterns *)
ULt32(a, b) ==
    IF (a < 0) = (b < 0) THEN a < b ELSE b < 0

(* #define MNL_ALIGN(len) (((len)+MNL_ALIGNTO-1) & ~(MNL_ALIGNTO-1)) *)
MNL_ALIGN(len) ==
    LET s == Add32(len, MNL_ALIGNTO - 1) IN s - (s % MNL_ALIGNTO)

MNL_NLMSG_HDRLEN == MNL_ALIGN(SizeofNlmsghdr)
MNL_ATTR_HDRLEN == MNL_ALIGN(SizeofNlattr)

---------------------------------------------------------------------------
(* nlmsg.c: the guards, on the values they read *)

(* int mnl_nlmsg_ok(const struct nlmsghdr *nlh, int len): nlmsg_len is the *)
(* __u32 field; the second conjunct compares unsigned, the third as int.   *)
mnl_nlmsg_ok(nlmsg_len, len) ==
    /\ len >= SizeofNlmsghdr
    /\ ~ULt32(nlmsg_len, SizeofNlmsghdr)
    /\ nlmsg_len <= len

mnl_nlmsg_seq_ok_mut(nlmsg_seq, s) ==
    IF nlmsg_seq # 0 THEN nlmsg_seq = s ELSE TRUE

(* bool mnl_nlmsg_seq_ok(const struct nlmsghdr *nlh, unsigned int seq) *)
mnl_nlmsg_seq_ok(nlmsg_seq, s) ==
    IF nlmsg_seq # 0 /\ s # 0 THEN nlmsg_seq = s ELSE TRUE

mnl_nlmsg_portid_ok_mut(nlmsg_pid, p) ==
    nlmsg_pid = p

(* bool mnl_nlmsg_portid_ok(const struct nlmsghdr *nlh, unsigned int portid) *)
mnl_nlmsg_portid_ok(nlmsg_pid, p) ==
    IF nlmsg_pid # 0 /\ p # 0 THEN nlmsg_pid = p ELSE TRUE

(* attr.c *)

mnl_attr_ok_mut(nla_len, len) ==
    /\ len >= SizeofNlattr
    /\ nla_len <= len

(* int mnl_attr_ok(const struct nlattr *attr, int len): nla_len is __u16 *)
mnl_attr_ok(nla_len, len) ==
    /\ len >= SizeofNlattr
    /\ nla_len >= SizeofNlattr
    /\ nla_len <= len

---------------------------------------------------------------------------
(* Memory: the fields of struct nlmsghdr in the build's byte order *)

Size(m) == Len(m)
InMem(m, off, n) == off >= 0 /\ off <= Size(m) - n

Zeros(n) == [i \in 1..n |-> 0]

Bytes16(a, v) ==
    IF BigEndian(a) THEN <<v \div 256, v % 256>> ELSE <<v % 256, v \div 256>>

Bytes32(a, p) ==
    LET b0 == p % 256
        b1 == (p \div 256) % 256
        b2 == (p \div 65536) % 256
        b3 == (p \div 16777216) % 256
    IN  IF BigEndian(a) THEN <<b3, b2, b1, b0>> ELSE <<b0, b1, b2, b3>>

GetU16(a, m, off) ==
    IF BigEndian(a) THEN 256 * m[off + 1] + m[off + 2]
    ELSE m[off + 1] + 256 * m[off + 2]

GetU32(a, m, off) ==
    LET b(i) == m[off + 1 + (IF BigEndian(a) THEN 3 - i ELSE i)]
        top == IF b(3) >= 128 THEN b(3) - 256 ELSE b(3)
    IN  b(0) + 256 * b(1) + 65536 * b(2) + 16777216 * top

(* struct nlmsghdr at offset off *)
Hdr(a, m, off) ==
    [nlmsg_len |-> GetU32(a, m, off),
     nlmsg_type |-> GetU16(a, m, off + 4),
     nlmsg_flags |-> GetU16(a, m, off + 6),
     nlmsg_seq |-> GetU32(a, m, off + 8),
     nlmsg_pid |-> GetU32(a, m, off + 12)]

RECURSIVE Concat(_)
Concat(ss) == IF ss = <<>> THEN <<>> ELSE Head(ss) \o Concat(Tail(ss))

---------------------------------------------------------------------------
(* The parts of the state a specification does not use *)

RunIdle ==
    /\ pc = "idle"
    /\ nlh = [far |-> FALSE, off |-> 0]
    /\ numbytes = [lo |-> 0, hi |-> 0]
    /\ ret = MNL_CB_OK
    /\ errno = 0
    /\ seq = 0
    /\ portid = 0
    /\ cb_data = FALSE
    /\ cb_ctl_array = "null"
    /\ cb_ctl_array_len = 0
    /\ numbytes0 = 0
    /\ examined = <<>>
    /\ handled = <<>>

FnIdle ==
    /\ call = [f |-> "none", a |-> <<>>]
    /\ result = [done |-> FALSE, val |-> FALSE]

AttrIdle ==
    /\ build = [pc |-> "idle", offset |-> 0, puts |-> <<>>,
               open |-> <<>>]
    /\ walk = [fn |-> "none", pc |-> "idle", attr |-> 0, len |-> 0,
               ret |-> MNL_CB_OK, cb |-> FALSE, start |-> 0, size |-> 0,
               parent |-> 0, plen |-> 0, ref |-> <<>>]
    /\ visited = <<>>

---------------------------------------------------------------------------
(* callback.c: mnl_cb_run2 *)

MaxMsgs == 2
MaxSteps == 3

(* what a handler supplied by the caller may return *)
CbRets == {-1, 0, 1, 2}

(* a read outside the caller's buffer yields one of these, or faults *)
OobHdrs ==
    {[nlmsg_len |-> 0, nlmsg_type |-> 0, nlmsg_flags |-> 0, nlmsg_seq |-> 0,
      nlmsg_pid |-> 0],
     [nlmsg_len |-> 16, nlmsg_type |-> 16, nlmsg_flags |-> 0, nlmsg_seq |-> 0,
      nlmsg_pid |-> 0]}

(* messages a receive buffer is made of: the declared fields, the bytes    *)
(* actually present (size) and the first payload word (err)                *)
Msg(l, t, s, p, sz, e) ==
    [len |-> l, type |-> t, seq |-> s, pid |-> p, size |-> sz, err |-> e]

Templates ==
    {Msg(16, 16, 7, 9, 16, 0),           \* data, correlated
     Msg(17, 17, 0, 0, 20, 0),           \* data, unsolicited, unaligned length
     Msg(16, 16, 8, 9, 16, 0),           \* data, foreign sequence number
     Msg(16, 16, 8, 5, 16, 0),           \* data, foreign port id and sequence
     Msg(16, NLMSG_NOOP, 7, 9, 16, 0),
     Msg(16, NLMSG_DONE, 7, 9, 16, 0),
     Msg(16, NLMSG_OVERRUN, 0, 9, 16, 0),
     Msg(16, 5, 7, 0, 16, 0),            \* control type without a default
     Msg(16, 0, 7, 9, 16, 0),            \* type 0, without a default either
     Msg(36, NLMSG_ERROR, 7, 9, 36, -13),
     Msg(36, NLMSG_ERROR, 7, 9, 36, 0),
     Msg(20, NLMSG_ERROR, 7, 9, 20, 13), \* too short for struct nlmsgerr
     Msg(32, 16, 7, 9, 20, 0),           \* truncated: 32 declared, 20 present
     Msg(12, 16, 7, 9, 16, 0),           \* declared length below the header
     Msg(-16, 16, 7, 9, 16, 0),          \* declared length 0xFFFFFFF0
     Msg(-1, 16, 7, 9, 16, 0)}           \* declared length 0xFFFFFFFF

MsgBytes(a, t) ==
    Bytes32(a, t.len) \o Bytes16(a, t.type) \o Bytes16(a, 0)
        \o Bytes32(a, t.seq) \o Bytes32(a, t.pid)
        \o (IF t.size >= 20 THEN Bytes32(a, t.err) \o Zeros(t.size - 20)
            ELSE <<>>)

(* error notifications of several sizes and statuses; 36 bytes hold the   *)
(* header and a struct nlmsgerr                                            *)
ErrTemplates ==
    {Msg(36, NLMSG_ERROR, 7, 9, 36, 13),
     Msg(36, NLMSG_ERROR, 7, 9, 36, I32Min),
     Msg(35, NLMSG_ERROR, 7, 9, 36, -13),
     Msg(35, NLMSG_ERROR, 7, 9, 36, 0),
     Msg(20, NLMSG_ERROR, 7, 9, 20, 0),
     Msg(19, NLMSG_ERROR, 7, 9, 20, 13),
     Msg(16, NLMSG_ERROR, 7, 9, 16, 0)}

(* any MaxMsgs templates in a row, and each error notification followed by *)
(* a data message                                                          *)
Buffers(a) ==
    {Concat([i \in 1..Len(ts) |-> MsgBytes(a, ts[i])]) :
        ts \in UNION {[1..k -> Templates] : k \in 0..MaxMsgs}}
    \cup
    {MsgBytes(a, e) \o MsgBytes(a, Msg(16, 16, 7, 9, 16, 0)) : e \in ErrTemplates}

(* the sequence number and port id a caller expects *)
Expected == {<<7, 9>>, <<0, 0>>}

(* the control handler tables a caller passes: NULL or an array, of which  *)
(* fn is the set of indices holding a handler                              *)
CtlTables ==
    {[null |-> TRUE, fn |-> {}, len |-> 0],
     [null |-> TRUE, fn |-> {}, len |-> NLMSG_MIN_TYPE],
     [null |-> FALSE, fn |-> {NLMSG_DONE}, len |-> NLMSG_DONE + 1]}

default_cb_array_mut(type) ==
    CASE type = NLMSG_ERROR -> "mnl_cb_error"
      [] type = NLMSG_DONE -> "mnl_cb_stop"
      [] OTHER -> "mnl_cb_noop"

(* static mnl_cb_t default_cb_array[NLMSG_MIN_TYPE] *)
default_cb_array(type) ==
    CASE type = NLMSG_NOOP -> "mnl_cb_noop"
      [] type = NLMSG_ERROR -> "mnl_cb_error"
      [] type = NLMSG_DONE -> "mnl_cb_stop"
      [] type = NLMSG_OVERRUN -> "mnl_cb_noop"
      [] OTHER -> "NULL"

mnl_nlmsg_size_mut(len) == len

(* size_t mnl_nlmsg_size(size_t len) *)
mnl_nlmsg_size(len) == len + MNL_NLMSG_HDRLEN

(* static int mnl_cb_error(nlh, data): the outcomes of the call, each the  *)
(* value returned and errno.  -err->error overflows on INT_MIN, which is   *)
(* undefined: the build wraps to INT_MIN or traps.                         *)
mnl_cb_error(nlmsg_len, error) ==
    IF ULt32(nlmsg_len, mnl_nlmsg_size(SizeofNlmsgerr))
    THEN {[ret |-> MNL_CB_ERROR, errno |-> EBADMSG, trap |-> FALSE]}
    ELSE IF error = I32Min
    THEN {[ret |-> MNL_CB_ERROR, errno |-> I32Min, trap |-> t] : t \in BOOLEAN}
    ELSE {[ret |-> IF error = 0 THEN MNL_CB_STOP ELSE MNL_CB_ERROR,
           errno |-> IF error < 0 THEN -error ELSE error,
           trap |-> FALSE]}

(* (int)numbytes, the argument of mnl_nlmsg_ok(nlh, numbytes) *)
IntOf(nb) == nb.lo

\* the int that mnl_nlmsg_next reaches through its int pointer to numbytes
AliasedInt(a, nb) == IF a = "lp64be" THEN nb.hi ELSE nb.lo

(* struct nlmsghdr *mnl_nlmsg_next(const struct nlmsghdr *nlh, int *len) *)
mnl_nlmsg_next_len(a, h, nb) ==
    LET l == Sub32(AliasedInt(a, nb), MNL_ALIGN(h.nlmsg_len))
    IN  IF a = "lp64be" THEN [nb EXCEPT !.hi = l] ELSE [nb EXCEPT !.lo = l]

mnl_nlmsg_next_ptr(a, h, cur) ==
    LET step == MNL_ALIGN(h.nlmsg_len)
    IN  IF a \in {"lp64le", "lp64be"}
        THEN IF cur.far \/ step < 0 THEN [far |-> TRUE, off |-> 0]
             ELSE [far |-> FALSE, off |-> cur.off + step]
        ELSE [far |-> FALSE, off |-> Add32(cur.off, step)]

HdrInMem(cur) == ~cur.far /\ InMem(mem, cur.off, SizeofNlmsghdr)

(* the header mnl_cb_run2 reads at the cursor *)
HdrsAt(cur) ==
    IF HdrInMem(cur) THEN {Hdr(abi, mem, cur.off)} ELSE OobHdrs

(* the word err->error that mnl_cb_error reads *)
ErrWordsAt(cur) ==
    IF ~cur.far /\ InMem(mem, cur.off + MNL_NLMSG_HDRLEN, 4)
    THEN {GetU32(abi, mem, cur.off + MNL_NLMSG_HDRLEN)}
    ELSE {0, -13}

Init ==
    /\ abi \in Abis
    /\ mem \in Buffers(abi)
    /\ numbytes0 = Size(mem)
    /\ numbytes = [lo |-> numbytes0, hi |-> 0]
    /\ pc = "loop"
    /\ nlh = [far |-> FALSE, off |-> 0]
    /\ ret = MNL_CB_OK
    /\ errno = 0
    /\ \E e \in Expected : seq = e[1] /\ portid = e[2]
    /\ cb_data \in BOOLEAN
    /\ \E t \in CtlTables :
        /\ cb_ctl_array = [null |-> t.null, fn |-> t.fn]
        /\ cb_ctl_array_len = t.len
    /\ examined = <<>>
    /\ handled = <<>>
    /\ FnIdle
    /\ AttrIdle

(* the loop test passes on header h *)
LoopTest(h) ==
    /\ pc = "loop"
    /\ Len(examined) < MaxSteps
    /\ h \in HdrsAt(nlh)
    /\ mnl_nlmsg_ok(h.nlmsg_len, IntOf(numbytes))

(* h passes both correlation checks *)
Correlated(h) ==
    /\ mnl_nlmsg_portid_ok(h.nlmsg_pid, portid)
    /\ mnl_nlmsg_seq_ok(h.nlmsg_seq, seq)

Examine(h) ==
    examined' = Append(examined, [far |-> nlh.far, off |-> nlh.off, h |-> h])

Invoke(kind, r) ==
    handled' = Append(handled, [msg |-> Len(examined) + 1, kind |-> kind, r |-> r])

(* nlh = mnl_nlmsg_next(nlh, &numbytes) and back to the loop test *)
Advance(h) ==
    /\ nlh' = mnl_nlmsg_next_ptr(abi, h, nlh)
    /\ numbytes' = mnl_nlmsg_next_len(abi, h, numbytes)
    /\ pc' = "loop"

AfterHandler_mut(h, r) ==
    IF r < MNL_CB_STOP
    THEN pc' = "done" /\ UNCHANGED <<nlh, numbytes>>
    ELSE Advance(h)

(* after a handler returned r: goto out, or the next message *)
AfterHandler(h, r) ==
    IF r <= MNL_CB_STOP
    THEN pc' = "done" /\ UNCHANGED <<nlh, numbytes>>
    ELSE Advance(h)

runArgs == <<abi, mem, seq, portid, cb_data, cb_ctl_array, cb_ctl_array_len,
             numbytes0, fnVars, attrVars>>

Run2Exit_mut ==
    /\ pc = "loop"
    /\ \/ IntOf(numbytes) < SizeofNlmsghdr
       \/ \E h \in HdrsAt(nlh) : ~mnl_nlmsg_ok(h.nlmsg_len, IntOf(numbytes))
    /\ pc' = "done"
    /\ ret' = IF IntOf(numbytes) = 0 THEN ret ELSE MNL_CB_ERROR
    /\ errno' = IF IntOf(numbytes) = 0 THEN errno ELSE EBADMSG
    /\ UNCHANGED <<nlh, numbytes, examined, handled, runArgs>>

(* while (mnl_nlmsg_ok(nlh, numbytes)) fails: return ret *)
Run2Exit ==
    /\ pc = "loop"
    /\ \/ IntOf(numbytes) < SizeofNlmsghdr
       \/ \E h \in HdrsAt(nlh) : ~mnl_nlmsg_ok(h.nlmsg_len, IntOf(numbytes))
    /\ pc' = "done"
    /\ UNCHANGED <<nlh, numbytes, ret, errno, examined, handled, runArgs>>

(* the read of a header outside the buffer faults *)
Run2Fault ==
    /\ pc = "loop"
    /\ IntOf(numbytes) >= SizeofNlmsghdr
    /\ ~HdrInMem(nlh)
    /\ pc' = "crash"
    /\ UNCHANGED <<nlh, numbytes, ret, errno, examined, handled, runArgs>>

(* the message comes from a foreign port id *)
Run2PortidFail ==
    \E h \in HdrsAt(nlh) :
        /\ LoopTest(h)
        /\ ~mnl_nlmsg_portid_ok(h.nlmsg_pid, portid)
        /\ errno' = EINVAL
        /\ ret' = -1
        /\ pc' = "done"
        /\ Examine(h)
        /\ UNCHANGED <<nlh, numbytes, handled, runArgs>>

Run2SeqFail_mut ==
    \E h \in HdrsAt(nlh) :
        /\ LoopTest(h)
        /\ ~mnl_nlmsg_seq_ok(h.nlmsg_seq, seq)
        /\ errno' = EILSEQ
        /\ ret' = -1
        /\ pc' = "done"
        /\ Examine(h)
        /\ UNCHANGED <<nlh, numbytes, handled, runArgs>>

(* the port id is fine and the sequence number is not *)
Run2SeqFail ==
    \E h \in HdrsAt(nlh) :
        /\ LoopTest(h)
        /\ mnl_nlmsg_portid_ok(h.nlmsg_pid, portid)
        /\ ~mnl_nlmsg_seq_ok(h.nlmsg_seq, seq)
        /\ errno' = EILSEQ
        /\ ret' = -1
        /\ pc' = "done"
        /\ Examine(h)
        /\ UNCHANGED <<nlh, numbytes, handled, runArgs>>

(* nlmsg_type >= NLMSG_MIN_TYPE and cb_data is set *)
Run2Data ==
    \E h \in HdrsAt(nlh), r \in CbRets :
        /\ LoopTest(h)
        /\ Correlated(h)
        /\ h.nlmsg_type >= NLMSG_MIN_TYPE
        /\ cb_data
        /\ ret' = r
        /\ Examine(h)
        /\ Invoke("cb_data", r)
        /\ AfterHandler(h, r)
        /\ UNCHANGED <<errno, runArgs>>

(* nlmsg_type >= NLMSG_MIN_TYPE and cb_data is NULL *)
Run2DataSkip ==
    \E h \in HdrsAt(nlh) :
        /\ LoopTest(h)
        /\ Correlated(h)
        /\ h.nlmsg_type >= NLMSG_MIN_TYPE
        /\ ~cb_data
        /\ Examine(h)
        /\ Advance(h)
        /\ UNCHANGED <<ret, errno, handled, runArgs>>

(* nlmsg_type < cb_ctl_array_len and cb_ctl_array[nlmsg_type] is set *)
Run2Ctl ==
    \E h \in HdrsAt(nlh), r \in CbRets :
        /\ LoopTest(h)
        /\ Correlated(h)
        /\ h.nlmsg_type < NLMSG_MIN_TYPE
        /\ h.nlmsg_type < cb_ctl_array_len
        /\ ~cb_ctl_array.null
        /\ h.nlmsg_type \in cb_ctl_array.fn
        /\ ret' = r
        /\ Examine(h)
        /\ Invoke("cb_ctl_array", r)
        /\ AfterHandler(h, r)
        /\ UNCHANGED <<errno, runArgs>>

(* nlmsg_type < cb_ctl_array_len, cb_ctl_array or its entry is NULL *)
Run2CtlSkip ==
    \E h \in HdrsAt(nlh) :
        /\ LoopTest(h)
        /\ Correlated(h)
        /\ h.nlmsg_type < NLMSG_MIN_TYPE
        /\ h.nlmsg_type < cb_ctl_array_len
        /\ (cb_ctl_array.null \/ h.nlmsg_type \notin cb_ctl_array.fn)
        /\ Examine(h)
        /\ Advance(h)
        /\ UNCHANGED <<ret, errno, handled, runArgs>>

(* nlmsg_type >= cb_ctl_array_len and default_cb_array[nlmsg_type] is set *)
Run2Default ==
    \E h \in HdrsAt(nlh) :
        /\ LoopTest(h)
        /\ Correlated(h)
        /\ h.nlmsg_type < NLMSG_MIN_TYPE
        /\ h.nlmsg_type >= cb_ctl_array_len
        /\ default_cb_array(h.nlmsg_type) # "NULL"
        /\ Examine(h)
        /\ \E e \in ErrWordsAt(nlh) :
            \E er \in mnl_cb_error(h.nlmsg_len, e) :
                LET f == default_cb_array(h.nlmsg_type)
                    r == CASE f = "mnl_cb_noop" -> MNL_CB_OK
                           [] f = "mnl_cb_stop" -> MNL_CB_STOP
                           [] f = "mnl_cb_error" -> er.ret
                IN  IF f = "mnl_cb_error" /\ er.trap
                    THEN /\ pc' = "crash"
                         /\ UNCHANGED <<nlh, numbytes, ret, errno, handled>>
                    ELSE /\ ret' = r
                         /\ errno' = IF f = "mnl_cb_error" THEN er.errno
                                     ELSE errno
                         /\ Invoke(f, r)
                         /\ AfterHandler(h, r)
        /\ UNCHANGED runArgs

(* nlmsg_type >= cb_ctl_array_len and default_cb_array[nlmsg_type] is NULL *)
Run2DefaultSkip ==
    \E h \in HdrsAt(nlh) :
        /\ LoopTest(h)
        /\ Correlated(h)
        /\ h.nlmsg_type < NLMSG_MIN_TYPE
        /\ h.nlmsg_type >= cb_ctl_array_len
        /\ default_cb_array(h.nlmsg_type) = "NULL"
        /\ Examine(h)
        /\ Advance(h)
        /\ UNCHANGED <<ret, errno, handled, runArgs>>

Next ==
    \/ Run2Exit
    \/ Run2Fault
    \/ Run2PortidFail
    \/ Run2SeqFail
    \/ Run2Data
    \/ Run2DataSkip
    \/ Run2Ctl
    \/ Run2CtlSkip
    \/ Run2Default
    \/ Run2DefaultSkip

Spec == Init /\ [][Next]_vars

---------------------------------------------------------------------------
(* attr.c: the attribute codec *)

(* struct nlattr at offset off *)
Attr(a, m, off) ==
    [nla_len |-> GetU16(a, m, off), nla_type |-> GetU16(a, m, off + 2)]

mnl_attr_get_type_mut(nla_type) ==
    nla_type

(* uint16_t mnl_attr_get_type(attr): nla_type & NLA_TYPE_MASK *)
mnl_attr_get_type(nla_type) ==
    nla_type % (NLA_TYPE_MASK + 1)

(* uint16_t mnl_attr_get_payload_len(attr) *)
mnl_attr_get_payload_len(nla_len) ==
    (nla_len - MNL_ATTR_HDRLEN) % 65536

(* void *mnl_attr_get_payload(attr) *)
mnl_attr_get_payload(attr) ==
    attr + MNL_ATTR_HDRLEN

mnl_attr_get_u8(m, attr) ==
    m[mnl_attr_get_payload(attr) + 1]

mnl_attr_get_u16(a, m, attr) ==
    GetU16(a, m, mnl_attr_get_payload(attr))

mnl_attr_get_u32(a, m, attr) ==
    GetU32(a, m, mnl_attr_get_payload(attr))

(* a 64-bit value is kept as its two 32-bit halves *)
mnl_attr_get_u64(a, m, attr) ==
    LET p == mnl_attr_get_payload(attr)
    IN  IF BigEndian(a)
        THEN [hi |-> GetU32(a, m, p), lo |-> GetU32(a, m, p + 4)]
        ELSE [lo |-> GetU32(a, m, p), hi |-> GetU32(a, m, p + 4)]

(* const char *mnl_attr_get_str(attr): a pointer, no length *)
mnl_attr_get_str(attr) ==
    mnl_attr_get_payload(attr)

(* the C string a char pointer denotes: the bytes before the first NUL;    *)
(* -1 marks a read that ran past the buffer                                *)
RECURSIVE CStr(_, _)
CStr(m, ptr) ==
    IF ~InMem(m, ptr, 1) THEN <<-1>>
    ELSE IF m[ptr + 1] = 0 THEN <<>>
    ELSE <<m[ptr + 1]>> \o CStr(m, ptr + 1)

\* size_t strlen(const char *s): data is a NUL-terminated array
strlen(data) ==
    (CHOOSE i \in 1..Len(data) : data[i] = 0 /\ \A j \in 1..(i - 1) : data[j] # 0) - 1

(* struct nlattr *mnl_attr_next(attr, int *len) *)
mnl_attr_next_len_mut(nla_len, length) ==
    Sub32(length, nla_len)

mnl_attr_next_len(nla_len, length) ==
    Sub32(length, MNL_ALIGN(nla_len))

mnl_attr_next_ptr_mut(nla_len, attr) ==
    attr + nla_len

mnl_attr_next_ptr(nla_len, attr) ==
    attr + MNL_ALIGN(nla_len)

---------------------------------------------------------------------------
(* The builder: nlmsg.c and attr.c, on a message at the start of mem *)

(* the bytes bs stored at offset off of m; a store outside m is dropped *)
WriteBytes(m, off, bs) ==
    IF InMem(m, off, Len(bs))
    THEN SubSeq(m, 1, off) \o bs \o SubSeq(m, off + Len(bs) + 1, Len(m))
    ELSE [i \in 1..Len(m) |->
             IF i - 1 >= off /\ i - 1 < off + Len(bs) THEN bs[i - off]
             ELSE m[i]]

SetU16(a, m, off, v) == WriteBytes(m, off, Bytes16(a, v))
SetU32(a, m, off, p) == WriteBytes(m, off, Bytes32(a, p))

Bytes64(a, v) ==
    IF BigEndian(a) THEN Bytes32(a, v.hi) \o Bytes32(a, v.lo)
    ELSE Bytes32(a, v.lo) \o Bytes32(a, v.hi)

(* struct nlmsghdr *mnl_nlmsg_put_header(void *buf) *)
mnl_nlmsg_put_header(a, m) ==
    LET length == MNL_ALIGN(SizeofNlmsghdr)
    IN  SetU32(a, WriteBytes(m, 0, Zeros(length)), 0, length)

mnl_nlmsg_put_extra_header_mut(a, m, size) ==
    LET ptr == GetU32(a, m, 0)
    IN  WriteBytes(SetU32(a, m, 0, Add32(ptr, size)), ptr, Zeros(size))

\* void *mnl_nlmsg_put_extra_header(struct nlmsghdr *nlh, size_t size)
mnl_nlmsg_put_extra_header(a, m, size) ==
    LET ptr == GetU32(a, m, 0)
    IN  WriteBytes(SetU32(a, m, 0, Add32(ptr, MNL_ALIGN(size))), ptr, Zeros(size))

(* void *mnl_nlmsg_get_payload_tail(nlh) *)
mnl_nlmsg_get_payload_tail(a, m) ==
    MNL_ALIGN(GetU32(a, m, 0))

mnl_attr_put_mut(a, m, type, length, data) ==
    LET attr == mnl_nlmsg_get_payload_tail(a, m)
        payload_len == (MNL_ALIGN(SizeofNlattr) + length) % 65536
        m1 == SetU16(a, m, attr + 2, type)
        m2 == SetU16(a, m1, attr, payload_len)
        m3 == WriteBytes(m2, mnl_attr_get_payload(attr), SubSeq(data, 1, length))
    IN  SetU32(a, m3, 0, Add32(GetU32(a, m3, 0), payload_len))

(* void mnl_attr_put(nlh, uint16_t type, size_t len, const void *data) *)
mnl_attr_put(a, m, type, length, data) ==
    LET attr == mnl_nlmsg_get_payload_tail(a, m)
        payload_len == (MNL_ALIGN(SizeofNlattr) + length) % 65536
        m1 == SetU16(a, m, attr + 2, type)
        m2 == SetU16(a, m1, attr, payload_len)
        m3 == WriteBytes(m2, mnl_attr_get_payload(attr), SubSeq(data, 1, length))
    IN  SetU32(a, m3, 0, Add32(GetU32(a, m3, 0), MNL_ALIGN(payload_len)))

mnl_attr_put_u8_mut(a, m, type, data) ==
    mnl_attr_put(a, m, type, 2, <<data % 256, 0>>)

mnl_attr_put_u8(a, m, type, data) == mnl_attr_put(a, m, type, 1, <<data % 256>>)
mnl_attr_put_u16(a, m, type, data) == mnl_attr_put(a, m, type, 2, Bytes16(a, data))
mnl_attr_put_u32(a, m, type, data) == mnl_attr_put(a, m, type, 4, Bytes32(a, data))
mnl_attr_put_u64(a, m, type, data) == mnl_attr_put(a, m, type, 8, Bytes64(a, data))
mnl_attr_put_str_mut(a, m, type, data) ==
    mnl_attr_put(a, m, type, strlen(data) + 1, data)

mnl_attr_put_str(a, m, type, data) == mnl_attr_put(a, m, type, strlen(data), data)

mnl_attr_nest_start_mut(a, m, type) ==
    LET start == mnl_nlmsg_get_payload_tail(a, m)
        flagged == IF type >= NLA_F_NESTED THEN type ELSE NLA_F_NESTED + type
        m1 == SetU16(a, m, start - 2, flagged)
    IN  SetU32(a, m1, 0, Add32(GetU32(a, m1, 0), MNL_ALIGN(SizeofNlattr)))

(* struct nlattr *mnl_attr_nest_start(nlh, uint16_t type): the message; *)
(* the pointer returned is the tail before the call                       *)
mnl_attr_nest_start(a, m, type) ==
    LET start == mnl_nlmsg_get_payload_tail(a, m)
        flagged == IF type >= NLA_F_NESTED THEN type ELSE NLA_F_NESTED + type
        m1 == SetU16(a, m, start + 2, flagged)
    IN  SetU32(a, m1, 0, Add32(GetU32(a, m1, 0), MNL_ALIGN(SizeofNlattr)))

mnl_attr_nest_end_mut(a, m, start) ==
    SetU16(a, m, start,
           (mnl_nlmsg_get_payload_tail(a, m) - start - MNL_ATTR_HDRLEN) % 65536)

(* void mnl_attr_nest_end(nlh, struct nlattr *start) *)
mnl_attr_nest_end(a, m, start) ==
    SetU16(a, m, start, (mnl_nlmsg_get_payload_tail(a, m) - start) % 65536)

MaxPuts == 2
BufCap == 48

(* the attribute types handed to the builder *)
PutTypes == {5, NLA_F_NESTED + 6}

InitBuild ==
    /\ abi \in Abis
    /\ \E f \in {0, 170} : mem = [i \in 1..BufCap |-> f]
    /\ RunIdle
    /\ FnIdle
    /\ build = [pc |-> "raw", offset |-> 0, puts |-> <<>>,
               open |-> <<>>]
    /\ walk = [fn |-> "none", pc |-> "idle", attr |-> 0, len |-> 0,
               ret |-> MNL_CB_OK, cb |-> FALSE, start |-> 0, size |-> 0,
               parent |-> 0, plen |-> 0, ref |-> <<>>]
    /\ visited = <<>>

PutHeader ==
    /\ build.pc = "raw"
    /\ mem' = mnl_nlmsg_put_header(abi, mem)
    /\ build' = [build EXCEPT !.pc = "hdr"]
    /\ UNCHANGED <<abi, runVars, fnVars, walk, visited>>

(* at most once, right after mnl_nlmsg_put_header *)
PutExtraHeader ==
    /\ build.pc = "hdr"
    /\ walk.pc = "idle"
    /\ \E size \in {3, 4} :
        /\ mem' = mnl_nlmsg_put_extra_header(abi, mem, size)
        /\ build' = [build EXCEPT !.pc = "attrs", !.offset = size]
    /\ UNCHANGED <<abi, runVars, fnVars, walk, visited>>

(* the caller may append an attribute of payload length n *)
CanPut(n) ==
    /\ build.pc \in {"hdr", "attrs"}
    /\ walk.pc = "idle"
    /\ Len(build.puts) < MaxPuts
    /\ mnl_nlmsg_get_payload_tail(abi, mem) + MNL_ALIGN(SizeofNlattr + n) <= Size(mem)

(* the call is noted with its arguments, the tail it found and the number *)
(* of nests open around it                                                *)
Logged(kind, type, val) ==
    build' = [build EXCEPT !.pc = "attrs",
                           !.puts = Append(@, [kind |-> kind, type |-> type,
                                               val |-> val,
                                               off |-> mnl_nlmsg_get_payload_tail(abi, mem),
                                               depth |-> Len(build.open)])]

AttrPutU8 ==
    /\ CanPut(1)
    /\ \E type \in PutTypes, data \in {200} :
        /\ mem' = mnl_attr_put_u8(abi, mem, type, data)
        /\ Logged("u8", type, data)
    /\ UNCHANGED <<abi, runVars, fnVars, walk, visited>>

AttrPutU16 ==
    /\ CanPut(2)
    /\ \E type \in PutTypes, data \in {513} :
        /\ mem' = mnl_attr_put_u16(abi, mem, type, data)
        /\ Logged("u16", type, data)
    /\ UNCHANGED <<abi, runVars, fnVars, walk, visited>>

AttrPutU32 ==
    /\ CanPut(4)
    /\ \E type \in PutTypes, data \in {42, -2} :
        /\ mem' = mnl_attr_put_u32(abi, mem, type, data)
        /\ Logged("u32", type, data)
    /\ UNCHANGED <<abi, runVars, fnVars, walk, visited>>

AttrPutU64 ==
    /\ CanPut(8)
    /\ \E type \in PutTypes, data \in {[lo |-> 1, hi |-> -1]} :
        /\ mem' = mnl_attr_put_u64(abi, mem, type, data)
        /\ Logged("u64", type, data)
    /\ UNCHANGED <<abi, runVars, fnVars, walk, visited>>

AttrPutStr ==
    \* the strings "eth0", "ab" and ""
    \E type \in {6, NLA_F_NESTED + 6},
       data \in {<<101, 116, 104, 48, 0>>, <<97, 98, 0>>, <<0>>} :
        /\ CanPut(strlen(data))
        /\ mem' = mnl_attr_put_str(abi, mem, type, data)
        /\ Logged("str", type, SubSeq(data, 1, strlen(data)))
        /\ UNCHANGED <<abi, runVars, fnVars, walk, visited>>

(* a nest is opened; its start is kept by the caller *)
AttrNestStart ==
    /\ CanPut(0)
    /\ \E type \in PutTypes :
        /\ mem' = mnl_attr_nest_start(abi, mem, type)
        /\ build' = [build EXCEPT
               !.pc = "attrs",
               !.puts = Append(@, [kind |-> "nest", type |-> type, val |-> <<>>,
                                   off |-> mnl_nlmsg_get_payload_tail(abi, mem),
                                   depth |-> Len(build.open)]),
               !.open = Append(@, Len(build.puts) + 1)]
    /\ UNCHANGED <<abi, runVars, fnVars, walk, visited>>

(* the innermost open nest is closed *)
AttrNestEnd ==
    /\ build.pc = "attrs"
    /\ walk.pc = "idle"
    /\ build.open # <<>>
    /\ LET top == build.open[Len(build.open)]
       IN  mem' = mnl_attr_nest_end(abi, mem, build.puts[top].off)
    /\ build' = [build EXCEPT !.open = SubSeq(@, 1, Len(@) - 1)]
    /\ UNCHANGED <<abi, runVars, fnVars, walk, visited>>

---------------------------------------------------------------------------
(* attr.c: mnl_attr_parse and mnl_attr_parse_nested *)

(* a read outside the caller's buffer yields one of two attributes *)
AttrsAt(off) ==
    IF InMem(mem, off, SizeofNlattr) THEN {Attr(abi, mem, off)}
    ELSE {[nla_len |-> 0, nla_type |-> 0], [nla_len |-> 4, nla_type |-> 1]}

(* mnl_attr_parse, lines 253-255: the cursor and the remaining length *)
AttrParseStart ==
    /\ build.pc \in {"hdr", "attrs", "recv"}
    /\ build.open = <<>>
    /\ walk.pc = "idle"
    /\ \E cb \in BOOLEAN :
        LET offset == build.offset
            attr == MNL_NLMSG_HDRLEN + MNL_ALIGN(offset)
            length == Sub32(Sub32(GetU32(abi, mem, 0), MNL_NLMSG_HDRLEN),
                            MNL_ALIGN(offset))
        IN  walk' = [fn |-> "mnl_attr_parse", pc |-> "loop", attr |-> attr,
                     len |-> length, ret |-> MNL_CB_OK, cb |-> cb,
                     start |-> attr, size |-> length, parent |-> 0,
                     plen |-> 0, ref |-> <<>>]
    /\ visited' = <<>>
    /\ UNCHANGED <<abi, mem, runVars, fnVars, build>>

(* mnl_attr_parse_nested, lines 282-284, on an attribute the caller got    *)
(* from a walk and that carries the nested flag                            *)
AttrParseNestedStart ==
    /\ walk.pc = "done"
    /\ \E i \in DOMAIN visited, cb \in BOOLEAN :
        LET nested == visited[i].off
            at == visited[i].at
            attr == mnl_attr_get_payload(nested)
            length == mnl_attr_get_payload_len(at.nla_len)
        IN  /\ at.nla_type >= NLA_F_NESTED
            /\ walk' = [fn |-> "mnl_attr_parse_nested", pc |-> "loop",
                        attr |-> attr, len |-> length, ret |-> MNL_CB_OK,
                        cb |-> cb, start |-> attr, size |-> length,
                        parent |-> nested, plen |-> at.nla_len,
                        ref |-> <<>>]
    /\ visited' = <<>>
    /\ UNCHANGED <<abi, mem, runVars, fnVars, build>>

(* uint16_t mnl_attr_get_len(attr) *)
mnl_attr_get_len(nla_len) == nla_len

(* size_t mnl_nlmsg_get_payload_len(nlh), as the 32 bits an int takes *)
mnl_nlmsg_get_payload_len(nlmsg_len) == Sub32(nlmsg_len, MNL_NLMSG_HDRLEN)

(* a walk with a callback went through its region without being stopped; *)
(* the offsets of the attributes it visited                                *)
RanToEnd ==
    /\ walk.pc = "done"
    /\ walk.cb
    /\ \A i \in DOMAIN visited : visited[i].r >= MNL_CB_OK
Offs == [i \in DOMAIN visited |-> visited[i].off]

(* mnl_attr_for_each(attr, nlh, offset), libmnl.h lines 134-135, on the   *)
(* message and with the offset that mnl_attr_parse was just run with; the  *)
(* attributes that run visited are kept for comparison                     *)
AttrForEachStart ==
    /\ walk.fn = "mnl_attr_parse"
    /\ RanToEnd
    /\ LET attr == MNL_NLMSG_HDRLEN + MNL_ALIGN(build.offset)
           length == mnl_nlmsg_get_payload_len(GetU32(abi, mem, 0))
       IN  walk' = [fn |-> "mnl_attr_for_each", pc |-> "loop", attr |-> attr,
                    len |-> length, ret |-> MNL_CB_OK, cb |-> TRUE,
                    start |-> attr, size |-> length, parent |-> 0,
                    plen |-> 0, ref |-> Offs]
    /\ visited' = <<>>
    /\ UNCHANGED <<abi, mem, runVars, fnVars, build>>

(* mnl_attr_for_each_nested(attr, nest), libmnl.h lines 140-141, on the   *)
(* nest that mnl_attr_parse_nested was just run on                         *)
AttrForEachNestedStart ==
    /\ walk.fn = "mnl_attr_parse_nested"
    /\ RanToEnd
    /\ LET attr == mnl_attr_get_payload(walk.parent)
           length == mnl_attr_get_len(walk.plen)
       IN  walk' = [fn |-> "mnl_attr_for_each_nested", pc |-> "loop",
                    attr |-> attr, len |-> length, ret |-> MNL_CB_OK,
                    cb |-> TRUE, start |-> attr, size |-> length,
                    parent |-> walk.parent, plen |-> walk.plen, ref |-> Offs]
    /\ visited' = <<>>
    /\ UNCHANGED <<abi, mem, runVars, fnVars, build>>

WalkVisit_mut ==
    /\ walk.pc = "loop"
    /\ \E at \in AttrsAt(walk.attr) :
        /\ walk.len >= SizeofNlattr
        /\ mnl_attr_ok(at.nla_len, walk.len)
        /\ LET next == [walk EXCEPT !.attr = mnl_attr_next_ptr(at.nla_len, @),
                                    !.len = mnl_attr_next_len(at.nla_len, @)]
           IN  IF walk.cb
               THEN \E r \in CbRets :
                       /\ visited' = Append(visited, [off |-> walk.attr, at |-> at, r |-> r])
                       /\ walk' = IF r < MNL_CB_STOP
                                  THEN [walk EXCEPT !.ret = r, !.pc = "done"]
                                  ELSE [next EXCEPT !.ret = r]
               ELSE walk' = next /\ UNCHANGED visited
    /\ UNCHANGED <<abi, mem, runVars, fnVars, build>>

(* one turn of while (mnl_attr_ok(attr, len)) with the guard true *)
WalkVisit ==
    /\ walk.pc = "loop"
    /\ \E at \in AttrsAt(walk.attr) :
        /\ walk.len >= SizeofNlattr
        /\ mnl_attr_ok(at.nla_len, walk.len)
        /\ LET next == [walk EXCEPT !.attr = mnl_attr_next_ptr(at.nla_len, @),
                                    !.len = mnl_attr_next_len(at.nla_len, @)]
           IN  IF walk.cb
               THEN \E r \in CbRets :
                       /\ visited' = Append(visited, [off |-> walk.attr, at |-> at, r |-> r])
                       /\ walk' = IF r <= MNL_CB_STOP
                                  THEN [walk EXCEPT !.ret = r, !.pc = "done"]
                                  ELSE [next EXCEPT !.ret = r]
               ELSE walk' = next /\ UNCHANGED visited
    /\ UNCHANGED <<abi, mem, runVars, fnVars, build>>

(* the guard is false: return ret *)
WalkExit ==
    /\ walk.pc = "loop"
    /\ \/ walk.len < SizeofNlattr
       \/ \E at \in AttrsAt(walk.attr) : ~mnl_attr_ok(at.nla_len, walk.len)
    /\ walk' = [walk EXCEPT !.pc = "done"]
    /\ UNCHANGED <<abi, mem, runVars, fnVars, build, visited>>

AttrParseVisit ==
    /\ walk.fn = "mnl_attr_parse"
    /\ WalkVisit

AttrParseExit ==
    /\ walk.fn = "mnl_attr_parse"
    /\ WalkExit

AttrParseNestedVisit ==
    /\ walk.fn = "mnl_attr_parse_nested"
    /\ WalkVisit

AttrParseNestedExit ==
    /\ walk.fn = "mnl_attr_parse_nested"
    /\ WalkExit

(* the for loop of either macro: mnl_attr_ok, the body, mnl_attr_next; a  *)
(* body that breaks is a visit that returns MNL_CB_STOP or less            *)
AttrForEachVisit ==
    /\ walk.fn \in {"mnl_attr_for_each", "mnl_attr_for_each_nested"}
    /\ WalkVisit

AttrForEachExit ==
    /\ walk.fn \in {"mnl_attr_for_each", "mnl_attr_for_each_nested"}
    /\ WalkExit

NextBuild ==
    \/ PutHeader
    \/ PutExtraHeader
    \/ AttrPutU8
    \/ AttrPutU16
    \/ AttrPutU32
    \/ AttrPutU64
    \/ AttrPutStr
    \/ AttrParseStart
    \/ AttrParseVisit
    \/ AttrParseExit

SpecBuild == InitBuild /\ [][NextBuild]_vars

---------------------------------------------------------------------------
(* The parse walks over received messages whose attribute lengths may be   *)
(* anything the wire can carry                                             *)

AttrBytes(a, nla_len, type, body) ==
    Bytes16(a, nla_len) \o Bytes16(a, type) \o body

Word(a) == Bytes32(a, 42)

(* attribute regions: none, well-formed, nested, and with corrupted lengths *)
Regions(a) ==
    {<<>>,
     AttrBytes(a, 8, 1, Word(a)) \o AttrBytes(a, 5, 2, <<7, 0, 0, 0>>),
     AttrBytes(a, 8, 1, Word(a)) \o AttrBytes(a, 5, 2, <<7>>),
     AttrBytes(a, 20, NLA_F_NESTED + 3,
               AttrBytes(a, 8, 1, Word(a)) \o AttrBytes(a, 8, 2, Word(a)))
         \o AttrBytes(a, 4, 4, <<>>),
     AttrBytes(a, 12, NLA_F_NESTED + 3, AttrBytes(a, 20, 1, Word(a)))
         \o AttrBytes(a, 8, 5, Word(a)),
     AttrBytes(a, 20, NLA_F_NESTED + 3,
               AttrBytes(a, 8, 1, Word(a)) \o AttrBytes(a, 12, 2, Word(a)))
         \o AttrBytes(a, 8, 5, Word(a)),
     AttrBytes(a, 19, NLA_F_NESTED + 3,
               AttrBytes(a, 8, 1, Word(a)) \o AttrBytes(a, 7, 2, <<1, 2, 3, 0>>))
         \o AttrBytes(a, 8, 5, Word(a)),
     AttrBytes(a, 0, 1, Word(a)),
     AttrBytes(a, 3, 1, Word(a)),
     AttrBytes(a, 8, 1, Word(a)) \o AttrBytes(a, 65535, 2, Word(a)),
     AttrBytes(a, 8, 1, Word(a)) \o AttrBytes(a, 16, 2, Word(a))}

Received(a, offset, region, skew, trailer) ==
    LET length == MNL_NLMSG_HDRLEN + MNL_ALIGN(offset) + Len(region)
    IN  MsgBytes(a, Msg(length + skew, NLMSG_MIN_TYPE, 7, 9, MNL_NLMSG_HDRLEN, 0))
            \o Zeros(MNL_ALIGN(offset)) \o region \o trailer

InitAttr ==
    /\ abi \in Abis
    \* the size of the family header before the attributes; the declared
    \* message length less the bytes of the message present; and what
    \* follows the message in the buffer: nothing, or bytes that read as an
    \* attribute
    /\ \E offset \in {0, 3}, region \in Regions(abi), skew \in {0, -4, 8},
          trailer \in {<<>>, AttrBytes(abi, 8, 9, Word(abi))} :
        /\ mem = Received(abi, offset, region, skew, trailer)
        /\ build = [pc |-> "recv", offset |-> offset, puts |-> <<>>,
               open |-> <<>>]
    /\ walk = [fn |-> "none", pc |-> "idle", attr |-> 0, len |-> 0,
               ret |-> MNL_CB_OK, cb |-> FALSE, start |-> 0, size |-> 0,
               parent |-> 0, plen |-> 0, ref |-> <<>>]
    /\ visited = <<>>
    /\ RunIdle
    /\ FnIdle

NextAttr ==
    \/ AttrParseStart
    \/ AttrParseVisit
    \/ AttrParseExit
    \/ AttrParseNestedStart
    \/ AttrParseNestedVisit
    \/ AttrParseNestedExit
    \/ AttrForEachStart
    \/ AttrForEachNestedStart
    \/ AttrForEachVisit
    \/ AttrForEachExit

SpecAttr == InitAttr /\ [][NextAttr]_vars

---------------------------------------------------------------------------
(* The builder with nests, and the walks over what it built *)

NextNest ==
    \/ PutHeader
    \/ PutExtraHeader
    \/ AttrPutU8
    \/ AttrPutU64
    \/ AttrNestStart
    \/ AttrNestEnd
    \/ AttrParseStart
    \/ AttrParseVisit
    \/ AttrParseExit
    \/ AttrParseNestedStart
    \/ AttrParseNestedVisit
    \/ AttrParseNestedExit

SpecNest == InitBuild /\ [][NextNest]_vars

---------------------------------------------------------------------------
(* Attribute validation: attr.c, __mnl_attr_validate and its two entries *)

(* enum mnl_attr_data_type *)
MNL_TYPE_U8 == 1
MNL_TYPE_U16 == 2
MNL_TYPE_U32 == 3
MNL_TYPE_U64 == 4
MNL_TYPE_STRING == 5
MNL_TYPE_FLAG == 6
MNL_TYPE_NESTED == 8
MNL_TYPE_NUL_STRING == 10
MNL_TYPE_MAX == 12

ERANGE == 34
EOPNOTSUPP == 95

(* an outcome of a validation: the value returned and the errno assigned   *)
(* (0 when the call assigns none); trap when the read of the last payload  *)
(* byte faulted                                                            *)
Pass == [ret |-> 0, errno |-> 0, trap |-> FALSE]
Fail(e) == [ret |-> -1, errno |-> e, trap |-> FALSE]
Trap == [ret |-> 0, errno |-> 0, trap |-> TRUE]

(* attr_data[attr_len-1] != '\0' on the attribute at off: outside   *)
(* the memory of the attribute the byte read is any byte, or the read      *)
(* faults                                                                  *)
LastByteCheck_mut(m, off, attr_len) ==
    LET at == off + MNL_ATTR_HDRLEN + attr_len - 1
    IN  IF InMem(m, at, 1)
        THEN {IF m[at + 1] # 0 THEN Fail(ERANGE) ELSE Pass}
        ELSE {Pass, Fail(ERANGE), Trap}

LastByteCheck(m, off, attr_len) ==
    LET at == off + MNL_ATTR_HDRLEN + attr_len - 1
    IN  IF InMem(m, at, 1)
        THEN {IF m[at + 1] # 0 THEN Fail(EINVAL) ELSE Pass}
        ELSE {Pass, Fail(EINVAL), Trap}

(* static size_t mnl_attr_data_type_len[MNL_TYPE_MAX] *)
mnl_attr_data_type_len_mut(type) ==
    CASE type = MNL_TYPE_U8 -> 1
      [] type = MNL_TYPE_U16 -> 2
      [] type = MNL_TYPE_U32 -> 8
      [] type = MNL_TYPE_U64 -> 8
      [] OTHER -> 0

mnl_attr_data_type_len(type) ==
    CASE type = MNL_TYPE_U8 -> 1
      [] type = MNL_TYPE_U16 -> 2
      [] type = MNL_TYPE_U32 -> 4
      [] type = MNL_TYPE_U64 -> 8
      [] OTHER -> 0

mnl_attr_type_valid_mut(nla_type, max) ==
    IF mnl_attr_get_type(nla_type) >= max % 65536
    THEN Fail(EOPNOTSUPP)
    ELSE [ret |-> 1, errno |-> 0, trap |-> FALSE]

(* int mnl_attr_type_valid(attr, uint16_t max) *)
mnl_attr_type_valid(nla_type, max) ==
    IF mnl_attr_get_type(nla_type) > max % 65536
    THEN Fail(EOPNOTSUPP)
    ELSE [ret |-> 1, errno |-> 0, trap |-> FALSE]

(* static int __mnl_attr_validate(attr, type, size_t exp_len): the set of  *)
(* outcomes of the call on the attribute at off in m                       *)
__mnl_attr_validate(a, m, off, type, exp_len) ==
    LET attr_len == mnl_attr_get_payload_len(GetU16(a, m, off))
        kind ==
            CASE type = MNL_TYPE_FLAG ->
                    IF attr_len > 0 THEN {Fail(ERANGE)} ELSE {Pass}
              [] type = MNL_TYPE_NUL_STRING ->
                    IF attr_len = 0 THEN {Fail(ERANGE)}
                    ELSE LastByteCheck(m, off, attr_len)
              [] type = MNL_TYPE_STRING ->
                    IF attr_len = 0 THEN {Fail(ERANGE)} ELSE {Pass}
              [] type = MNL_TYPE_NESTED ->
                    IF attr_len = 0 THEN {Pass}
                    ELSE IF attr_len < MNL_ATTR_HDRLEN THEN {Fail(ERANGE)}
                    ELSE {Pass}
              [] OTHER -> {Pass}
        last == IF exp_len # 0 /\ attr_len > exp_len THEN Fail(ERANGE) ELSE Pass
    IN  IF attr_len < exp_len THEN {Fail(ERANGE)}
        ELSE {IF k = Pass THEN last ELSE k : k \in kind}

(* int mnl_attr_validate(attr, enum mnl_attr_data_type type) *)
mnl_attr_validate(a, m, off, type) ==
    IF type >= MNL_TYPE_MAX THEN {Fail(EINVAL)}
    ELSE __mnl_attr_validate(a, m, off, type, mnl_attr_data_type_len(type))

mnl_attr_validate2_mut(a, m, off, type, exp_len) ==
    IF type >= MNL_TYPE_MAX THEN {Fail(EINVAL)}
    ELSE __mnl_attr_validate(a, m, off, type, mnl_attr_data_type_len(type))

(* int mnl_attr_validate2(attr, enum mnl_attr_data_type type, size_t exp_len) *)
mnl_attr_validate2(a, m, off, type, exp_len) ==
    IF type >= MNL_TYPE_MAX THEN {Fail(EINVAL)}
    ELSE __mnl_attr_validate(a, m, off, type, exp_len)

---------------------------------------------------------------------------
(* The pure functions applied to inputs drawn from bounded sets *)

IntSamples ==
    {I32Min, -16, -1, 0, 3, 4, 5, 8, 15, 16, 17, 20, 32, 33, 65535, 65536,
     I32Max}
U16Samples == {0, 1, 3, 4, 5, 7, 8, 16, 20, 32767, 32768, 65535}
IdSamples == {0, 1, 7, 9, -1}

(* enum mnl_attr_data_type values, and two past MNL_TYPE_MAX *)
ValTypes == 0..(MNL_TYPE_MAX + 1)

(* where the validated attribute comes from, with its declared length and *)
(* last payload byte when received, or built by mnl_attr_nest_start and    *)
(* mnl_attr_nest_end                                                       *)
FromWire == 0
FromEmptyNest == 1
AttrSources ==
    \* declared lengths for payload lengths 0..4, 8, 9 and 65531, and by
    \* wrap-around 65532 and 65535; the last byte of the payload
    {<<FromWire, l, b>> :
        l \in {0, 3, 4, 5, 6, 7, 8, 12, 13, 65535}, b \in {0, 65}}
    \cup {<<FromEmptyNest, 0, 0>>}

FnCalls ==
    {[f |-> "mnl_nlmsg_ok", a |-> <<l, n>>] : l \in IntSamples, n \in IntSamples}
    \cup
    {[f |-> "mnl_attr_ok", a |-> <<l, n>>] : l \in U16Samples, n \in IntSamples}
    \cup
    {[f |-> "mnl_nlmsg_seq_ok", a |-> <<m, e>>] : m \in IdSamples, e \in IdSamples}
    \cup
    {[f |-> "mnl_nlmsg_portid_ok", a |-> <<m, e>>] : m \in IdSamples, e \in IdSamples}
    \cup
    \* payload lengths (size_t len) around the 16-bit limit of nla_len
    {[f |-> "mnl_attr_put", a |-> <<t, n>>] :
        t \in PutTypes, n \in {0, 1, 3, 4, 5, 8, 65531, 65532, 65535}}
    \cup
    {[f |-> "mnl_attr_nest", a |-> <<t, n>>] :
        t \in PutTypes \cup {0, 16383, 16384 + 3},
        n \in {0, 1, 4, 65524, 65528}}
    \cup
    {[f |-> "MNL_ALIGN", a |-> <<n>>] :
        n \in IntSamples \cup U16Samples
              \cup {1, 2, 6, 65533, 65534, I32Max - 3, -5, -4, -3, -2}}
    \cup
    {[f |-> "mnl_nlmsg_put_extra_header", a |-> <<n, b>>] :
        n \in {0, 1, 3, 4, 5, 8, 20}, b \in {0, 170}}
    \cup
    {[f |-> "mnl_attr_type_valid", a |-> <<t, x, n>>] :
        t \in {0, 5, 9, 16383, 16384 + 3, 32768 + 9, 65535},
        x \in {0, 5, 9, 16383, 65535, 65536 + 5},
        n \in {0, 1, 4}}
    \cup
    {[f |-> "mnl_attr_validate", a |-> <<t>> \o s] :
        t \in ValTypes, s \in AttrSources}
    \cup
    {[f |-> "mnl_attr_validate2", a |-> <<t>> \o s \o <<e>>] :
        t \in ValTypes, s \in AttrSources,
        e \in {0, 1, 2, 3, 4, 8, 9, 65536}}

InitFn ==
    /\ abi \in Abis
    /\ mem = <<>>
    /\ RunIdle
    /\ AttrIdle
    /\ call \in FnCalls
    /\ result = [done |-> FALSE, val |-> FALSE]

CallNlmsgOk ==
    /\ call.f = "mnl_nlmsg_ok"
    /\ ~result.done
    /\ result' = [done |-> TRUE, val |-> mnl_nlmsg_ok(call.a[1], call.a[2])]
    /\ UNCHANGED <<abi, mem, runVars, attrVars, call>>

CallAttrOk ==
    /\ call.f = "mnl_attr_ok"
    /\ ~result.done
    /\ result' = [done |-> TRUE, val |-> mnl_attr_ok(call.a[1], call.a[2])]
    /\ UNCHANGED <<abi, mem, runVars, attrVars, call>>

CallSeqOk ==
    /\ call.f = "mnl_nlmsg_seq_ok"
    /\ ~result.done
    /\ result' = [done |-> TRUE, val |-> mnl_nlmsg_seq_ok(call.a[1], call.a[2])]
    /\ UNCHANGED <<abi, mem, runVars, attrVars, call>>

CallPortidOk ==
    /\ call.f = "mnl_nlmsg_portid_ok"
    /\ ~result.done
    /\ result' = [done |-> TRUE, val |-> mnl_nlmsg_portid_ok(call.a[1], call.a[2])]
    /\ UNCHANGED <<abi, mem, runVars, attrVars, call>>

(* the len bytes handed to mnl_attr_put *)
PutData(n) == [i \in 1..n |-> (i % 251) + 1]

(* mnl_attr_put on a message that holds a header only, in a buffer with    *)
(* room for the attribute; the result is what the call left in the buffer, *)
(* and next is the tail, where the following mnl_attr_put would write      *)
CallAttrPut ==
    /\ call.f = "mnl_attr_put"
    /\ ~result.done
    /\ LET type == call.a[1]
           n == call.a[2]
           room == MNL_NLMSG_HDRLEN + MNL_ATTR_HDRLEN + n + MNL_ALIGNTO
           m0 == mnl_nlmsg_put_header(abi, [i \in 1..room |-> 170])
           tail == mnl_nlmsg_get_payload_tail(abi, m0)
           m1 == mnl_attr_put(abi, m0, type, n, PutData(n))
       IN  result' = [done |-> TRUE,
                      val |-> [tail |-> tail,
                               before |-> GetU32(abi, m0, 0),
                               after |-> GetU32(abi, m1, 0),
                               next |-> mnl_nlmsg_get_payload_tail(abi, m1),
                               nla_len |-> GetU16(abi, m1, tail),
                               nla_type |-> GetU16(abi, m1, tail + 2),
                               copied |-> SubSeq(m1, tail + MNL_ATTR_HDRLEN + 1,
                                                 tail + MNL_ATTR_HDRLEN + n)
                                          = PutData(n)]]
    /\ UNCHANGED <<abi, mem, runVars, attrVars, call>>

(* mnl_attr_nest_start, one mnl_attr_put of n bytes and mnl_attr_nest_end  *)
(* on a message that holds a header only, in a buffer with room for it    *)
CallAttrNest ==
    /\ call.f = "mnl_attr_nest"
    /\ ~result.done
    /\ LET type == call.a[1]
           n == call.a[2]
           room == MNL_NLMSG_HDRLEN + 2 * MNL_ATTR_HDRLEN + n + MNL_ALIGNTO
           m0 == mnl_nlmsg_put_header(abi, [i \in 1..room |-> 170])
           start == mnl_nlmsg_get_payload_tail(abi, m0)
           m1 == mnl_attr_nest_start(abi, m0, type)
           child == mnl_nlmsg_get_payload_tail(abi, m1)
           m2 == mnl_attr_put(abi, m1, 1, n, PutData(n))
           m3 == mnl_attr_nest_end(abi, m2, start)
       IN  result' = [done |-> TRUE,
                      val |-> [start |-> start,
                               tail |-> mnl_nlmsg_get_payload_tail(abi, m3),
                               nla_len |-> GetU16(abi, m3, start),
                               nla_type |-> GetU16(abi, m3, start + 2),
                               type |-> mnl_attr_get_type(GetU16(abi, m3, start + 2)),
                               child |-> child,
                               child_len |-> GetU16(abi, m3, child)]]
    /\ UNCHANGED <<abi, mem, runVars, attrVars, call>>

(* the memory that holds the attribute of a source, and its offset there *)
AttrAt(a, how, nla_len, last) ==
    IF how = FromWire
    THEN LET plen == IF nla_len >= MNL_ATTR_HDRLEN
                     THEN nla_len - MNL_ATTR_HDRLEN ELSE 0
             body == [i \in 1..plen |-> IF i = plen THEN last ELSE 65]
         IN  [m |-> AttrBytes(a, nla_len, 1, body), off |-> 0]
    ELSE LET room == MNL_NLMSG_HDRLEN + MNL_ATTR_HDRLEN
             m0 == mnl_nlmsg_put_header(a, [i \in 1..room |-> 170])
             start == mnl_nlmsg_get_payload_tail(a, m0)
             m1 == mnl_attr_nest_start(a, m0, 5)
         IN  [m |-> mnl_attr_nest_end(a, m1, start), off |-> start]

(* what a validation call leaves: its outcome, next to the payload length *)
(* mnl_attr_get_payload_len gives for the attribute                        *)
Validated(at, o) ==
    [ret |-> o.ret, errno |-> o.errno, trap |-> o.trap,
     payload_len |-> mnl_attr_get_payload_len(GetU16(abi, at.m, at.off))]

CallAttrValidate ==
    /\ call.f = "mnl_attr_validate"
    /\ ~result.done
    /\ LET at == AttrAt(abi, call.a[2], call.a[3], call.a[4])
       IN  \E o \in mnl_attr_validate(abi, at.m, at.off, call.a[1]) :
               result' = [done |-> TRUE, val |-> Validated(at, o)]
    /\ UNCHANGED <<abi, mem, runVars, attrVars, call>>

CallAttrValidate2 ==
    /\ call.f = "mnl_attr_validate2"
    /\ ~result.done
    /\ LET at == AttrAt(abi, call.a[2], call.a[3], call.a[4])
       IN  \E o \in mnl_attr_validate2(abi, at.m, at.off, call.a[1], call.a[5]) :
               result' = [done |-> TRUE, val |-> Validated(at, o)]
    /\ UNCHANGED <<abi, mem, runVars, attrVars, call>>

(* MNL_ALIGN applied to a length held in an unsigned 32-bit field, or in   *)
(* a 16-bit field and promoted to int                                      *)
CallAlign ==
    /\ call.f = "MNL_ALIGN"
    /\ ~result.done
    /\ result' = [done |-> TRUE, val |-> MNL_ALIGN(call.a[1])]
    /\ UNCHANGED <<abi, mem, runVars, attrVars, call>>

(* mnl_nlmsg_put_header on a buffer filled with the byte call.a[2]; the    *)
(* caller then sets nlmsg_type, nlmsg_flags, nlmsg_seq and nlmsg_pid; and  *)
(* mnl_nlmsg_put_extra_header with size call.a[1], which returns the old   *)
(* end of the message                                                      *)
CallPutExtraHeader ==
    /\ call.f = "mnl_nlmsg_put_extra_header"
    /\ ~result.done
    /\ LET size == call.a[1]
           m0 == mnl_nlmsg_put_header(abi, [i \in 1..BufCap |-> call.a[2]])
           m1 == SetU32(abi, SetU32(abi, SetU16(abi, SetU16(abi, m0, 4, 18),
                                                6, 773), 8, 7), 12, -9)
           ptr == GetU32(abi, m1, 0)
           m2 == mnl_nlmsg_put_extra_header(abi, m1, size)
       IN  result' = [done |-> TRUE,
                      val |-> [header |-> SubSeq(m0, 1, SizeofNlmsghdr),
                               beyond |-> SubSeq(m0, SizeofNlmsghdr + 1, BufCap),
                               len0 |-> GetU32(abi, m0, 0),
                               ptr |-> ptr,
                               len1 |-> GetU32(abi, m2, 0),
                               fields |-> Hdr(abi, m2, 0),
                               region |-> SubSeq(m2, ptr + 1, ptr + size),
                               after |-> SubSeq(m2, ptr + size + 1, BufCap)]]
    /\ UNCHANGED <<abi, mem, runVars, attrVars, call>>

(* in a message of two attributes, the first of type call.a[1] with       *)
(* call.a[3] payload bytes: mnl_attr_type_valid on the first attribute     *)
(* with max call.a[2], then mnl_attr_next from it and mnl_attr_ok and      *)
(* mnl_attr_get_type on what mnl_attr_next returned                        *)
CallAttrTypeValid ==
    /\ call.f = "mnl_attr_type_valid"
    /\ ~result.done
    /\ LET n == call.a[3]
           m0 == mnl_nlmsg_put_header(abi, [i \in 1..BufCap |-> 170])
           m1 == mnl_attr_put(abi, m0, call.a[1], n, PutData(n))
           second == mnl_nlmsg_get_payload_tail(abi, m1)
           m2 == mnl_attr_put(abi, m1, 6, 2, PutData(2))
           attr == MNL_NLMSG_HDRLEN
           length == Sub32(GetU32(abi, m2, 0), MNL_NLMSG_HDRLEN)
           at == Attr(abi, m2, attr)
           o == mnl_attr_type_valid(at.nla_type, call.a[2])
           next == mnl_attr_next_ptr(at.nla_len, attr)
           left == mnl_attr_next_len(at.nla_len, length)
           after == Attr(abi, m2, next)
       IN  result' = [done |-> TRUE,
                      val |-> [ret |-> o.ret, errno |-> o.errno,
                               stored |-> at.nla_type,
                               second |-> second,
                               len |-> length,
                               next |-> next,
                               left |-> left,
                               next_ok |-> mnl_attr_ok(after.nla_len, left),
                               next_type |-> mnl_attr_get_type(after.nla_type)]]
    /\ UNCHANGED <<abi, mem, runVars, attrVars, call>>

NextFn ==
    \/ CallNlmsgOk
    \/ CallAttrOk
    \/ CallSeqOk
    \/ CallPortidOk
    \/ CallAttrPut
    \/ CallAttrNest
    \/ CallAlign
    \/ CallPutExtraHeader
    \/ CallAttrTypeValid
    \/ CallAttrValidate
    \/ CallAttrValidate2

SpecFn == InitFn /\ [][NextFn]_vars

---------------------------------------------------------------------------
(* Claims about the builder and mnl_attr_parse, checked under SpecBuild *)

(* the walk ran to its end with every callback returning MNL_CB_OK or more *)
ParsedAll ==
    /\ walk.fn = "mnl_attr_parse"
    /\ walk.pc = "done"
    /\ walk.cb
    /\ \A i \in DOMAIN visited : visited[i].r >= MNL_CB_OK

(* the value the getter matching kind returns on the attribute at off;     *)
(* what mnl_attr_get_str returns is read as a C string                     *)
Got(kind, off) ==
    CASE kind = "u8" -> mnl_attr_get_u8(mem, off)
      [] kind = "u16" -> mnl_attr_get_u16(abi, mem, off)
      [] kind = "u32" -> mnl_attr_get_u32(abi, mem, off)
      [] kind = "u64" -> mnl_attr_get_u64(abi, mem, off)
      [] kind = "str" -> CStr(mem, mnl_attr_get_str(off))

(* the mnl_attr_get_payload_len bytes that mnl_attr_get_str points at *)
StrPayload(off) ==
    LET p == mnl_attr_get_str(off)
        n == mnl_attr_get_payload_len(Attr(abi, mem, off).nla_len)
    IN  SubSeq(mem, p + 1, p + n)

\* C1 as stated: after any sequence of typed puts on a fresh message,
\* mnl_attr_parse from the extra header offset invokes the callback once
\* per put, in the order written, and mnl_attr_get_type and the matching
\* getter return exactly the type and the value written.
C1_RoundTripExact ==
    ParsedAll =>
        /\ Len(visited) = Len(build.puts)
        /\ \A i \in DOMAIN visited :
            LET p == build.puts[i]
                off == visited[i].off
            IN  /\ mnl_attr_get_type(Attr(abi, mem, off).nla_type) = p.type
                /\ Got(p.kind, off) = p.val

\* C1 as amended: the callback is invoked once per put, in the order
\* written; mnl_attr_get_type returns the type written with its two flag
\* bits cleared; the integer getters return the value written; and
\* mnl_attr_get_str points at the bytes of the string written, of which
\* there are mnl_attr_get_payload_len.
C1_RoundTrip ==
    ParsedAll =>
        /\ Len(visited) = Len(build.puts)
        /\ \A i \in DOMAIN visited :
            LET p == build.puts[i]
                off == visited[i].off
            IN  /\ mnl_attr_get_type(Attr(abi, mem, off).nla_type) = p.type % 16384
                /\ p.type < 16384 =>
                       mnl_attr_get_type(Attr(abi, mem, off).nla_type) = p.type
                /\ IF p.kind = "str" THEN StrPayload(off) = p.val
                   ELSE Got(p.kind, off) = p.val

C1_Witness ==
    /\ ParsedAll
    /\ build.offset > 0
    /\ Len(visited) = 2
    /\ build.puts[1].kind = "str"
    /\ build.puts[1].val # <<>>
    /\ build.puts[2].kind = "u64"

---------------------------------------------------------------------------
(* Claims about the attribute walks, checked under SpecAttr *)

\* C3: every attribute on which mnl_attr_parse or mnl_attr_parse_nested
\* invokes the callback has a declared length of at least 4 and ends at or
\* before the end of the parsed region, which is the message's declared
\* length, respectively the end of the nest's payload; the cursor and the
\* remaining length always add up to that end.
C3_WalkInsideRegion ==
    /\ walk.pc = "loop" /\ walk.len >= SizeofNlattr =>
           /\ walk.attr >= walk.start
           /\ walk.attr + walk.len = walk.start + walk.size
    /\ \A i \in DOMAIN visited :
           /\ visited[i].at.nla_len >= SizeofNlattr
           /\ visited[i].off >= walk.start
           /\ visited[i].off + visited[i].at.nla_len <= walk.start + walk.size
    /\ walk.fn = "mnl_attr_parse" =>
           walk.start + walk.size = GetU32(abi, mem, 0)
    /\ walk.fn = "mnl_attr_parse_nested" =>
           /\ walk.start = walk.parent + MNL_ATTR_HDRLEN
           /\ walk.start + walk.size = walk.parent + walk.plen
           /\ walk.plen >= SizeofNlattr

C3_Witness ==
    /\ walk.fn = "mnl_attr_parse_nested"
    /\ walk.pc = "done"
    /\ Len(visited) = 1
    /\ InMem(mem, walk.start + walk.size, SizeofNlattr)
    /\ Attr(abi, mem, visited[1].off + 8).nla_len > walk.size - 8

\* C16: mnl_attr_parse and mnl_attr_parse_nested invoke the callback once
\* per well-formed attribute, in region order; they stop at the first
\* callback value <= MNL_CB_STOP, visit no later attribute and return that
\* value; a walk that completes returns the last callback's value, or
\* MNL_CB_OK when no attribute was visited.
C16_WalkOrderAndStop ==
    walk.pc # "idle" =>
        /\ ~walk.cb => visited = <<>>
        /\ \A i \in DOMAIN visited :
            /\ visited[i].off =
                   IF i = 1 THEN walk.start
                   ELSE visited[i - 1].off
                            + MNL_ALIGN(visited[i - 1].at.nla_len)
            /\ mnl_attr_ok(visited[i].at.nla_len,
                           walk.size - (visited[i].off - walk.start))
            /\ visited[i].r <= MNL_CB_STOP =>
                   /\ i = Len(visited)
                   /\ walk.pc = "done"
                   /\ walk.ret = visited[i].r
        /\ walk.pc = "done" =>
            /\ walk.ret = IF visited = <<>> THEN MNL_CB_OK
                          ELSE visited[Len(visited)].r
            /\ walk.ret > MNL_CB_STOP =>
                   \/ walk.len < SizeofNlattr
                   \/ \E at \in AttrsAt(walk.attr) :
                          ~mnl_attr_ok(at.nla_len, walk.len)
            /\ (walk.cb /\ walk.ret > MNL_CB_STOP /\ visited # <<>>) =>
                   walk.attr = visited[Len(visited)].off
                       + MNL_ALIGN(visited[Len(visited)].at.nla_len)

C16_Witness ==
    /\ walk.fn = "mnl_attr_parse_nested"
    /\ walk.pc = "done"
    /\ Len(visited) = 1
    /\ visited[1].r = MNL_CB_STOP
    /\ walk.ret = MNL_CB_STOP
    /\ LET next == visited[1].off + MNL_ALIGN(visited[1].at.nla_len)
       IN  /\ InMem(mem, next, SizeofNlattr)
           /\ mnl_attr_ok(Attr(abi, mem, next).nla_len,
                          walk.size - (next - walk.start))

---------------------------------------------------------------------------
(* Claims about mnl_cb_run2, checked under Spec *)

(* the handler invocations made for the i-th examined message *)
HandledFor(i) == {j \in DOMAIN handled : handled[j].msg = i}

PidFails(h) == h.nlmsg_pid # 0 /\ portid # 0 /\ h.nlmsg_pid # portid
SeqFails(h) == h.nlmsg_seq # 0 /\ seq # 0 /\ h.nlmsg_seq # seq

\* C2: every message on which mnl_cb_run2 performs a correlation check or
\* invokes a handler lies entirely inside the buffer: its declared
\* nlmsg_len is at least 16 and at most the number of bytes from the start
\* of the message to the end of the buffer.
C2_ExaminedInsideBuffer ==
    \A i \in DOMAIN examined :
        LET x == examined[i]
        IN  /\ ~x.far
            /\ x.off >= 0
            /\ x.off <= numbytes0
            /\ ~ULt32(x.h.nlmsg_len, SizeofNlmsghdr)
            /\ x.h.nlmsg_len >= 0
            /\ x.h.nlmsg_len <= numbytes0 - x.off

\* C7: once a handler returns a value <= MNL_CB_STOP, mnl_cb_run2 returns
\* exactly that value and no handler is invoked for a later message; each
\* message of the buffer is handed to at most one handler, at most once, in
\* buffer order.
C7_StopEndsRun ==
    /\ \A j \in DOMAIN handled :
        handled[j].r <= MNL_CB_STOP =>
            /\ j = Len(handled)
            /\ handled[j].msg = Len(examined)
            /\ pc = "done"
            /\ ret = handled[j].r
    /\ \A j, k \in DOMAIN handled :
        j < k =>
            LET x == examined[handled[j].msg]
                y == examined[handled[k].msg]
                inBuf(z) == ~z.far /\ InMem(mem, z.off, SizeofNlmsghdr)
            IN  (inBuf(x) /\ inBuf(y)) => x.off < y.off

\* C8: a message failing the port id check ends the run with -1 and errno
\* EINVAL, also when its sequence number mismatches too; a message passing
\* the port id check and failing the sequence check ends the run with -1
\* and errno EILSEQ; in both cases no handler is invoked for that message
\* or for a later one.
C8_CorrelationOrder ==
    \A i \in DOMAIN examined :
        LET h == examined[i].h
            ends(e) == /\ i = Len(examined)
                       /\ pc = "done"
                       /\ ret = -1
                       /\ errno = e
                       /\ HandledFor(i) = {}
        IN  /\ PidFails(h) => ends(EINVAL)
            /\ (~PidFails(h) /\ SeqFails(h)) => ends(EILSEQ)

C8_Witness ==
    /\ pc = "done"
    /\ Len(examined) = 2
    /\ PidFails(examined[2].h)
    /\ SeqFails(examined[2].h)
    /\ Len(handled) = 1
    /\ errno = EINVAL

\* C10: for every valid, correlation-passing message whose type is below
\* NLMSG_MIN_TYPE, mnl_cb_run2 invokes the caller's override for that type
\* if one was supplied for that type, and otherwise the built-in default
\* for that type, also when cb_ctl_array covers the type and has no handler
\* at that index.
C10_ControlRouting ==
    \A i \in DOMAIN examined :
        LET h == examined[i].h
            t == h.nlmsg_type
            override == /\ ~cb_ctl_array.null
                        /\ t < cb_ctl_array_len
                        /\ t \in cb_ctl_array.fn
            kinds == {handled[j].kind : j \in HandledFor(i)}
        IN  (~PidFails(h) /\ ~SeqFails(h) /\ t < NLMSG_MIN_TYPE) =>
                /\ Cardinality(HandledFor(i)) <= 1
                /\ kinds = IF override THEN {"cb_ctl_array"}
                           ELSE IF t \in {NLMSG_NOOP, NLMSG_OVERRUN}
                                THEN {"mnl_cb_noop"}
                           ELSE IF t = NLMSG_DONE THEN {"mnl_cb_stop"}
                           ELSE IF t = NLMSG_ERROR THEN {"mnl_cb_error"}
                           ELSE {}

\* C11: when cb_ctl_array is NULL, mnl_cb_run2 uses the default control
\* handlers for every control message, whatever cb_ctl_array_len is: each
\* valid, correlation-passing message of a type below NLMSG_MIN_TYPE is
\* handed to the default handler of its type, as it is when
\* cb_ctl_array_len is 0.
C11_NullArrayUsesDefaults ==
    cb_ctl_array.null =>
        \A i \in DOMAIN examined :
            LET h == examined[i].h
                t == h.nlmsg_type
                kinds == {handled[j].kind : j \in HandledFor(i)}
            IN  (~PidFails(h) /\ ~SeqFails(h) /\ t < NLMSG_MIN_TYPE
                 /\ default_cb_array(t) # "NULL") =>
                    kinds = {default_cb_array(t)}

(* the status word of the i-th examined message, when it lies in the buffer *)
StatusIn(i) ==
    LET x == examined[i]
    IN  ~x.far /\ InMem(mem, x.off, MNL_NLMSG_HDRLEN + 4)

Status(i) == GetU32(abi, mem, examined[i].off + MNL_NLMSG_HDRLEN)

(* the i-th examined message is one whose status the default NLMSG_ERROR  *)
(* handler decodes                                                        *)
Decoded(i) ==
    LET h == examined[i].h
    IN  /\ StatusIn(i)
        /\ h.nlmsg_type = NLMSG_ERROR
        /\ ~PidFails(h) /\ ~SeqFails(h)
        /\ h.nlmsg_type >= cb_ctl_array_len
        /\ ~ULt32(h.nlmsg_len, mnl_nlmsg_size(SizeofNlmsgerr))

\* C12: the default NLMSG_ERROR handler, on a message whose status s it
\* decodes: s # 0 ends the run with MNL_CB_ERROR and errno = |s|, s = 0 ends
\* the run with MNL_CB_STOP, and in either case no later message is
\* dispatched.
C12_ErrorDecoding ==
    \A i \in DOMAIN examined :
        Decoded(i) =>
            LET s == Status(i)
            IN  /\ i = Len(examined)
                /\ pc = "done"
                /\ HandledFor(i) = {Len(handled)}
                /\ handled[Len(handled)].kind = "mnl_cb_error"
                /\ ret = IF s = 0 THEN MNL_CB_STOP ELSE MNL_CB_ERROR
                /\ s # 0 => errno >= 0 /\ (errno = s \/ errno + s = 0)

(* the messages handed to the default NLMSG_ERROR handler, as pairs of the *)
(* invocation and the message                                              *)
ErrorCalls ==
    {<<j, handled[j].msg>> : j \in {k \in DOMAIN handled :
                                        handled[k].kind = "mnl_cb_error"}}

(* the invocation j ended as a malformed-message error *)
Malformed(j) ==
    /\ j = Len(handled)
    /\ pc = "done"
    /\ handled[j].r = MNL_CB_ERROR
    /\ ret = MNL_CB_ERROR
    /\ errno = EBADMSG

(* the invocation j ended with the status of message i decoded *)
StatusDecoded(j, i) ==
    LET s == Status(i)
    IN  /\ j = Len(handled)
        /\ pc = "done"
        /\ handled[j].r = (IF s = 0 THEN MNL_CB_STOP ELSE MNL_CB_ERROR)
        /\ errno = s \/ errno + s = 0

\* C13 as stated: an error-control message is a malformed-message error
\* exactly when it is too small to contain the status value; every one that
\* holds the header and the status integer (20 bytes) has its status
\* decoded.
C13_MalformedIffNoStatus ==
    \A c \in ErrorCalls :
        LET len == examined[c[2]].h.nlmsg_len
        IN  IF ULt32(len, MNL_NLMSG_HDRLEN + 4)
            THEN Malformed(c[1])
            ELSE StatusIn(c[2]) => StatusDecoded(c[1], c[2])

\* C13 as amended: an error-control message is a malformed-message error
\* exactly when it is too small to contain a struct nlmsgerr, the status
\* and the header of the offending message (36 bytes with its own header);
\* every larger one has its status decoded.
C13_MalformedIffShort ==
    \A c \in ErrorCalls :
        LET len == examined[c[2]].h.nlmsg_len
        IN  IF ULt32(len, MNL_NLMSG_HDRLEN + SizeofNlmsgerr)
            THEN Malformed(c[1])
            ELSE StatusIn(c[2]) => StatusDecoded(c[1], c[2])

C13_Witness ==
    /\ pc = "done"
    /\ \E c \in ErrorCalls :
        /\ examined[c[2]].h.nlmsg_len = 35
        /\ StatusIn(c[2])
        /\ Status(c[2]) = 0
        /\ Malformed(c[1])

(* the i-th examined message lies inside the buffer *)
Valid(i) ==
    LET x == examined[i]
    IN  /\ ~x.far
        /\ x.off >= 0
        /\ x.h.nlmsg_len >= SizeofNlmsghdr
        /\ x.h.nlmsg_len <= numbytes0 - x.off

\* C14: a valid, correlation-passing message whose type is at least
\* NLMSG_MIN_TYPE is routed to the caller's data handler exactly once and to
\* no control handler; without a data handler it is skipped and dispatch
\* continues with the next message.
C14_DataRouting ==
    \A i \in DOMAIN examined :
        LET x == examined[i]
            h == x.h
            calls == {j \in DOMAIN handled :
                         LET y == examined[handled[j].msg]
                         IN  ~y.far /\ y.off = x.off}
        IN  (Valid(i) /\ ~PidFails(h) /\ ~SeqFails(h)
             /\ h.nlmsg_type >= NLMSG_MIN_TYPE) =>
                /\ \A j \in calls : handled[j].kind = "cb_data"
                /\ Cardinality(calls) = IF cb_data THEN 1 ELSE 0
                /\ (~cb_data /\ i = Len(examined)) =>
                       /\ pc # "crash" => ~nlh.far
                       /\ ~nlh.far => nlh.off = x.off + MNL_ALIGN(h.nlmsg_len)

(* the run ended at the loop test, not by a handler's return value nor by  *)
(* a correlation failure                                                   *)
EndedByGuard ==
    /\ pc = "done"
    /\ handled # <<>> => handled[Len(handled)].r > MNL_CB_STOP
    /\ examined # <<>> =>
           LET h == examined[Len(examined)].h
           IN  ~PidFails(h) /\ ~SeqFails(h)

\* C15: a trailing remainder that fails mnl_nlmsg_ok is not a reported
\* error: mnl_cb_run2 stops scanning, invokes no handler on the remainder,
\* does not set errno, and returns a value >= MNL_CB_OK, that of the last
\* handler, when every message before it was handled OK.
C15_RemainderIsNoError ==
    /\ [](EndedByGuard =>
            /\ \/ IntOf(numbytes) < SizeofNlmsghdr
               \/ \E h \in HdrsAt(nlh) :
                      ~mnl_nlmsg_ok(h.nlmsg_len, IntOf(numbytes))
            /\ errno = 0
            /\ ret >= MNL_CB_OK
            /\ ret = IF handled = <<>> THEN MNL_CB_OK
                     ELSE handled[Len(handled)].r)
    /\ [][(pc = "loop" /\ pc' = "done" /\ examined' = examined) =>
            /\ handled' = handled
            /\ errno' = errno
            /\ ret' = ret]_vars

C15_Witness ==
    /\ EndedByGuard
    /\ Len(examined) = 1
    /\ Len(handled) = 1
    /\ HdrInMem(nlh)
    /\ IntOf(numbytes) >= SizeofNlmsghdr
    /\ Hdr(abi, mem, nlh.off).nlmsg_len > IntOf(numbytes)

\* C4: an iteration driven by the guards ends after at most (region length
\* / minimal header size) steps: mnl_cb_run2 examines at most numbytes / 16
\* messages, and an attribute walk hands at most (region size / 4)
\* attributes to the callback.
C4_StepsBounded ==
    /\ Len(examined) * SizeofNlmsghdr <= numbytes0
    /\ walk.pc # "idle" /\ walk.size >= 0 =>
           Len(visited) * SizeofNlattr <= walk.size

---------------------------------------------------------------------------
(* Claims about the pure functions, checked under SpecFn *)

\* C5: mnl_nlmsg_ok(nlh, len) returns false whenever len < 16, or the
\* declared nlmsg_len < 16, or the declared nlmsg_len (an unsigned 32-bit
\* value) exceeds len, and true otherwise.  A pattern l < 0 is an unsigned
\* value of at least 2^31, above every int.
C5_NlmsgOkExact ==
    (call.f = "mnl_nlmsg_ok" /\ result.done) =>
        LET l == call.a[1]
            n == call.a[2]
            lenBelowHdr == n < 16
            declBelowHdr == l >= 0 /\ l < 16
            declExceeds == l < 0 \/ l > n
        IN  result.val = ~(lenBelowHdr \/ declBelowHdr \/ declExceeds)

\* C6: mnl_attr_ok(attr, len) returns false whenever len < 4, or the
\* declared nla_len < 4, or nla_len > len, and true otherwise, for every
\* 16-bit nla_len and every int len, negative ones included.
C6_AttrOkExact ==
    (call.f = "mnl_attr_ok" /\ result.done) =>
        LET l == call.a[1]
            n == call.a[2]
        IN  result.val = ~(n < 4 \/ l < 4 \/ l > n)

C6_Witness ==
    /\ call.f = "mnl_attr_ok"
    /\ result.done
    /\ call.a[1] < 4
    /\ call.a[2] >= 4
    /\ result.val = FALSE

\* C9: mnl_nlmsg_seq_ok and mnl_nlmsg_portid_ok pass a message whose own
\* field is 0 for every expected value, pass a non-zero field when the
\* expected value is 0, and otherwise pass exactly when the two are equal.
C9_ZeroExemption ==
    (call.f \in {"mnl_nlmsg_seq_ok", "mnl_nlmsg_portid_ok"} /\ result.done) =>
        LET m == call.a[1]
            e == call.a[2]
        IN  result.val = (m = 0 \/ e = 0 \/ m = e)

C9_Witness ==
    /\ call.f = "mnl_nlmsg_seq_ok"
    /\ result.done
    /\ call.a[1] # 0
    /\ call.a[2] = 0
    /\ result.val = TRUE

\* C17: mnl_attr_put(nlh, type, len, data), for every payload length len,
\* writes at the message's pre-call tail an attribute whose type is type,
\* whose declared length is exactly 4 + len and whose payload is the len
\* bytes of data, and increases nlmsg_len by exactly MNL_ALIGN(4 + len).
C17_PutExact ==
    (call.f = "mnl_attr_put" /\ result.done) =>
        LET type == call.a[1]
            n == call.a[2]
        IN  /\ result.val.tail = MNL_ALIGN(result.val.before)
            /\ result.val.nla_type = type
            /\ result.val.nla_len = 4 + n
            /\ result.val.copied
            /\ result.val.after = result.val.before + MNL_ALIGN(4 + n)

\* C18: after mnl_attr_nest_start, appended children and mnl_attr_nest_end,
\* the nest's payload length equals the sum of the children's aligned
\* on-wire sizes and its declared length is tail - nest start, for any child
\* sizes; here for a nest of one child.
C18_NestLength ==
    (call.f = "mnl_attr_nest" /\ result.done) =>
        LET v == result.val
        IN  /\ v.child = v.start + MNL_ATTR_HDRLEN
            /\ v.child_len = MNL_ATTR_HDRLEN + call.a[2]
            /\ mnl_attr_get_payload_len(v.nla_len) = MNL_ALIGN(v.child_len)
            /\ v.nla_len = v.tail - v.start

(* C19: a nest closed with no child has payload length 0 and               *)
(* mnl_attr_validate with MNL_TYPE_NESTED accepts it; for any attribute    *)
(* mnl_attr_validate with MNL_TYPE_NESTED succeeds exactly when the        *)
(* payload length is 0 or at least MNL_ATTR_HDRLEN, and mnl_attr_validate2 *)
(* with MNL_TYPE_NESTED succeeds only then                                 *)
C19_NestedValidation ==
    (result.done /\ call.f \in {"mnl_attr_validate", "mnl_attr_validate2"}
        /\ call.a[1] = MNL_TYPE_NESTED) =>
        LET v == result.val
            shaped == v.payload_len = 0 \/ v.payload_len >= MNL_ATTR_HDRLEN
        IN  /\ ~v.trap
            /\ v.ret = 0 => shaped
            /\ call.f = "mnl_attr_validate" => (v.ret = 0 <=> shaped)
            /\ call.f = "mnl_attr_validate" /\ call.a[2] = FromEmptyNest =>
                   v.payload_len = 0 /\ v.ret = 0
            /\ v.ret # 0 => v.ret = -1 /\ v.errno = ERANGE

C19_Witness ==
    /\ result.done
    /\ call.f = "mnl_attr_validate"
    /\ call.a[1] = MNL_TYPE_NESTED
    /\ call.a[2] = FromEmptyNest
    /\ result.val.payload_len = 0
    /\ result.val.ret = 0

(* the natural width of an integer kind *)
IntegerKinds == {MNL_TYPE_U8, MNL_TYPE_U16, MNL_TYPE_U32, MNL_TYPE_U64}
Width(type) ==
    CASE type = MNL_TYPE_U8 -> 1
      [] type = MNL_TYPE_U16 -> 2
      [] type = MNL_TYPE_U32 -> 4
      [] type = MNL_TYPE_U64 -> 8

(* C20 as stated: for an integer kind mnl_attr_validate and                *)
(* mnl_attr_validate2, whatever expected length is passed, succeed only if *)
(* the payload length is the natural width of the kind, and                *)
(* mnl_attr_validate succeeds exactly then                                 *)
C20_NaturalWidthAlways ==
    (result.done /\ call.f \in {"mnl_attr_validate", "mnl_attr_validate2"}
        /\ call.a[1] \in IntegerKinds) =>
        LET v == result.val
        IN  /\ v.ret = 0 => v.payload_len = Width(call.a[1])
            /\ call.f = "mnl_attr_validate" =>
                   (v.ret = 0 <=> v.payload_len = Width(call.a[1]))

(* C20, amended: for an integer kind mnl_attr_validate succeeds exactly    *)
(* when the payload length is the natural width of the kind;               *)
(* mnl_attr_validate2 succeeds exactly when the expected length passed is  *)
(* 0 or is the payload length, so that it holds the payload to the natural *)
(* width only when that width is the expected length passed; every failure *)
(* returns -1 with errno ERANGE                                            *)
C20_NaturalWidth ==
    (result.done /\ call.f \in {"mnl_attr_validate", "mnl_attr_validate2"}
        /\ call.a[1] \in IntegerKinds) =>
        LET v == result.val
        IN  /\ ~v.trap
            /\ call.f = "mnl_attr_validate" =>
                   (v.ret = 0 <=> v.payload_len = Width(call.a[1]))
            /\ call.f = "mnl_attr_validate2" =>
                   (v.ret = 0 <=> call.a[5] = 0 \/ v.payload_len = call.a[5])
            /\ call.f = "mnl_attr_validate2" /\ call.a[5] = Width(call.a[1]) =>
                   (v.ret = 0 <=> v.payload_len = Width(call.a[1]))
            /\ v.ret # 0 => v.ret = -1 /\ v.errno = ERANGE

C20_Witness ==
    /\ result.done
    /\ call.f = "mnl_attr_validate2"
    /\ call.a[1] = MNL_TYPE_U32
    /\ call.a[5] = 2
    /\ result.val.payload_len = 2
    /\ result.val.ret = 0

(* the validated attribute has a declared length of at least its header, *)
(* so that its payload lies in the memory that holds it                   *)
WellFormedCall ==
    call.a[2] = FromEmptyNest \/ call.a[3] >= MNL_ATTR_HDRLEN

(* C21: on a well-formed attribute mnl_attr_validate with                 *)
(* MNL_TYPE_NUL_STRING fails with ERANGE when the payload is empty, fails  *)
(* with EINVAL when the payload is not empty and its last byte is not 0,   *)
(* and succeeds otherwise; with MNL_TYPE_STRING it fails, with ERANGE,     *)
(* exactly when the payload is empty                                       *)
C21_StringValidation ==
    (result.done /\ call.f = "mnl_attr_validate" /\ WellFormedCall
        /\ call.a[1] \in {MNL_TYPE_NUL_STRING, MNL_TYPE_STRING}) =>
        LET v == result.val
            short == v.ret = -1 /\ v.errno = ERANGE
            malformed == v.ret = -1 /\ v.errno = EINVAL
        IN  /\ ~v.trap
            /\ call.a[1] = MNL_TYPE_NUL_STRING =>
                   IF v.payload_len = 0 THEN short
                   ELSE IF call.a[4] # 0 THEN malformed
                   ELSE v.ret = 0
            /\ call.a[1] = MNL_TYPE_STRING =>
                   IF v.payload_len = 0 THEN short ELSE v.ret = 0

C21_Witness ==
    /\ result.done
    /\ call.f = "mnl_attr_validate"
    /\ call.a[1] = MNL_TYPE_NUL_STRING
    /\ WellFormedCall
    /\ result.val.payload_len > 0
    /\ call.a[4] # 0
    /\ result.val.ret = -1
    /\ result.val.errno = EINVAL

(* C22 as stated: on a well-formed attribute and with a kind below         *)
(* MNL_TYPE_MAX, mnl_attr_validate2 with an expected length other than 0   *)
(* returns -1 with errno ERANGE whenever the payload length is not the     *)
(* expected length, and succeeds only when it is                           *)
C22_ExactLengthErange ==
    (result.done /\ call.f = "mnl_attr_validate2" /\ WellFormedCall
        /\ call.a[1] < MNL_TYPE_MAX /\ call.a[5] # 0) =>
        LET v == result.val
        IN  /\ v.payload_len # call.a[5] => v.ret = -1 /\ v.errno = ERANGE
            /\ v.ret = 0 => v.payload_len = call.a[5]

(* C22, amended: mnl_attr_validate2 with an expected length other than 0   *)
(* returns -1 whenever the payload length is not the expected length and   *)
(* succeeds only when it is; on a well-formed attribute errno is then      *)
(* ERANGE, except that it is EINVAL when the kind is MNL_TYPE_MAX or more, *)
(* and when the kind is MNL_TYPE_NUL_STRING, the payload is longer than    *)
(* expected and its last byte is not 0                                     *)
C22_ExactLength ==
    (result.done /\ call.f = "mnl_attr_validate2" /\ call.a[5] # 0) =>
        LET v == result.val
            unterminated == /\ call.a[1] = MNL_TYPE_NUL_STRING
                            /\ v.payload_len > call.a[5]
                            /\ call.a[4] # 0
        IN  /\ (v.ret = 0 /\ ~v.trap) => v.payload_len = call.a[5]
            /\ WellFormedCall => ~v.trap
            /\ (WellFormedCall /\ v.payload_len # call.a[5]) =>
                   /\ v.ret = -1
                   /\ v.errno = IF call.a[1] >= MNL_TYPE_MAX \/ unterminated
                                THEN EINVAL ELSE ERANGE

C22_Witness ==
    /\ result.done
    /\ call.f = "mnl_attr_validate2"
    /\ call.a[1] = MNL_TYPE_NUL_STRING
    /\ WellFormedCall
    /\ call.a[5] = 3
    /\ result.val.payload_len = 4
    /\ call.a[4] # 0
    /\ result.val.ret = -1
    /\ result.val.errno = EINVAL

(* C23: mnl_attr_type_valid(attr, max) returns -1 with errno EOPNOTSUPP    *)
(* exactly when the type of the attribute without its flag bits is above   *)
(* max, and 1 otherwise; either way mnl_attr_next from that attribute      *)
(* gives the attribute appended after it, with the remaining length less   *)
(* by the aligned size of the first                                        *)
C23_TypeValidAdvisory ==
    (result.done /\ call.f = "mnl_attr_type_valid") =>
        LET v == result.val
            bare == call.a[1] % 16384
            above == bare > call.a[2] % 65536
        IN  /\ v.stored = call.a[1]
            /\ above => v.ret = -1 /\ v.errno = EOPNOTSUPP
            /\ ~above => v.ret = 1 /\ v.errno = 0
            /\ v.next = v.second
            /\ v.left = v.len - (v.second - MNL_NLMSG_HDRLEN)
            /\ v.next_ok
            /\ v.next_type = 6

C23_Witness ==
    /\ result.done
    /\ call.f = "mnl_attr_type_valid"
    /\ call.a[1] = 9
    /\ call.a[2] = 5
    /\ result.val.ret = -1
    /\ result.val.errno = EOPNOTSUPP
    /\ result.val.next_ok
    /\ result.val.next_type = 6

---------------------------------------------------------------------------
(* The build and parse scenario, checked under SpecBuild *)

(* the message of the scenario was built and parsed to its end: an extra   *)
(* header of 4 bytes, a u32 attribute of type 5 and value 42, and the      *)
(* string "eth0" as an attribute of type 6                                 *)
Scenario ==
    /\ ParsedAll
    /\ build.offset = 4
    /\ Len(build.puts) = 2
    /\ build.puts[1].kind = "u32"
    /\ build.puts[1].type = 5
    /\ build.puts[1].val = 42
    /\ build.puts[2].kind = "str"
    /\ build.puts[2].type = 6
    /\ build.puts[2].val = <<101, 116, 104, 48>>

(* what the parse of the scenario gives, but for the string *)
ScenarioParsed ==
    /\ Len(visited) = 2
    /\ mnl_attr_get_type(visited[1].at.nla_type) = 5
    /\ mnl_attr_get_u32(abi, mem, visited[1].off) = 42
    /\ mnl_attr_get_type(visited[2].at.nla_type) = 6

(* C24 as stated: the scenario parses back to type 5 with 42 and type 6    *)
(* with the string "eth0", and the total length of the message is          *)
(* header + align(4) + align(8) + align(4 + 8)                             *)
C24_ScenarioAsStated ==
    Scenario =>
        /\ ScenarioParsed
        /\ Got("str", visited[2].off) = <<101, 116, 104, 48>>
        /\ GetU32(abi, mem, 0) =
               MNL_NLMSG_HDRLEN + MNL_ALIGN(4) + MNL_ALIGN(8) + MNL_ALIGN(4 + 8)

(* C24, amended: the scenario parses back to type 5 with 42 and to type 6  *)
(* with a payload of the 4 bytes "eth0", which read as the C string "eth0" *)
(* when the byte after them is 0; the total length of the message is       *)
(* header + align(4) + align(4 + 4) + align(4 + 4), 36 bytes               *)
C24_Scenario ==
    Scenario =>
        /\ ScenarioParsed
        /\ mnl_attr_get_payload_len(visited[2].at.nla_len) = 4
        /\ StrPayload(visited[2].off) = <<101, 116, 104, 48>>
        /\ LET after == mnl_attr_get_str(visited[2].off) + 4
           IN  (InMem(mem, after, 1) /\ mem[after + 1] = 0) =>
                   Got("str", visited[2].off) = <<101, 116, 104, 48>>
        /\ GetU32(abi, mem, 0) =
               MNL_NLMSG_HDRLEN + MNL_ALIGN(4) + MNL_ALIGN(4 + 4) + MNL_ALIGN(4 + 4)
        /\ GetU32(abi, mem, 0) = 36

C24_Witness ==
    /\ Scenario
    /\ Len(visited) = 2
    /\ GetU32(abi, mem, 0) = 36
    /\ mem[37] = 0

---------------------------------------------------------------------------
(* Claims about the pure functions, continued, checked under SpecFn *)

(* C25: for every length n of a 32-bit or a 16-bit field, MNL_ALIGN(n) is  *)
(* a multiple of 4 and n <= MNL_ALIGN(n) < n + 4, the values of 32 bits    *)
(* being compared as unsigned                                              *)
C25_AlignBounds ==
    (result.done /\ call.f = "MNL_ALIGN") =>
        LET n == call.a[1]
            v == result.val
        IN  /\ v % MNL_ALIGNTO = 0
            /\ ~ULt32(v, n)
            /\ Sub32(v, n) \in 0..(MNL_ALIGNTO - 1)

(* C26: mnl_nlmsg_put_header zeroes the 16 bytes of the header but for     *)
(* nlmsg_len, which it sets to 16, and writes nothing beyond them;         *)
(* mnl_nlmsg_put_extra_header(nlh, size) then returns the old end of the   *)
(* message, zeroes size bytes from there and none beyond, adds size        *)
(* rounded up to a multiple of 4 to nlmsg_len, and leaves nlmsg_type,      *)
(* nlmsg_flags, nlmsg_seq and nlmsg_pid as the caller set them             *)
C26_PutHeaders ==
    (result.done /\ call.f = "mnl_nlmsg_put_extra_header") =>
        LET v == result.val
            size == call.a[1]
            padded == size + ((4 - (size % 4)) % 4)
        IN  /\ v.len0 = 16
            /\ v.header = Bytes32(abi, 16) \o Zeros(12)
            /\ \A i \in DOMAIN v.beyond : v.beyond[i] = call.a[2]
            /\ v.ptr = 16
            /\ v.region = Zeros(size)
            /\ \A i \in DOMAIN v.after : v.after[i] = call.a[2]
            /\ v.len1 = 16 + padded
            /\ v.fields.nlmsg_type = 18
            /\ v.fields.nlmsg_flags = 773
            /\ v.fields.nlmsg_seq = 7
            /\ v.fields.nlmsg_pid = -9

C26_Witness ==
    /\ result.done
    /\ call.f = "mnl_nlmsg_put_extra_header"
    /\ call.a = <<3, 170>>
    /\ result.val.len1 = 20
    /\ result.val.region = <<0, 0, 0>>
    /\ result.val.after[1] = 170

---------------------------------------------------------------------------
(* Claims about the builder with nests, checked under SpecNest *)

(* n rounded up to a multiple of 4 *)
Pad4(n) == n + ((4 - (n % 4)) % 4)

(* the unpadded size of the record the put noted at j wrote: its header,   *)
(* and its payload unless it opened a nest                                 *)
OwnSize(j) ==
    MNL_ATTR_HDRLEN +
        CASE build.puts[j].kind = "u8" -> 1
          [] build.puts[j].kind = "u16" -> 2
          [] build.puts[j].kind = "u32" -> 4
          [] build.puts[j].kind = "u64" -> 8
          [] build.puts[j].kind = "str" -> Len(build.puts[j].val)
          [] build.puts[j].kind = "nest" -> 0

RECURSIVE PaddedSum(_)
PaddedSum(S) ==
    IF S = {} THEN 0
    ELSE LET j == CHOOSE x \in S : TRUE
         IN  Pad4(OwnSize(j)) + PaddedSum(S \ {j})

(* the nest opened at n was closed; the records put inside it *)
Closed(n) ==
    /\ build.puts[n].kind = "nest"
    /\ \A k \in DOMAIN build.open : build.open[k] # n
Inside(n) ==
    {j \in DOMAIN build.puts :
        /\ j > n
        /\ \A k \in (n + 1)..j : build.puts[k].depth > build.puts[n].depth}

(* where the records start, and the length each attribute declares *)
RecordsAligned ==
    \A j \in DOMAIN build.puts :
        /\ build.puts[j].off % 4 = 0
        /\ build.puts[j].off =
               MNL_NLMSG_HDRLEN + Pad4(build.offset) + PaddedSum(1..(j - 1))
        /\ build.puts[j].kind # "nest" =>
               Attr(abi, mem, build.puts[j].off).nla_len = OwnSize(j)

(* the last record of a set of puts, and the padding after it *)
LastPad(S) ==
    LET j == CHOOSE x \in S : \A y \in S : y <= x
    IN  Pad4(OwnSize(j)) - OwnSize(j)

---------------------------------------------------------------------------
(* Claims about the type of a nest, checked under SpecFn *)

(* C28: the type field of an attribute opened with                         *)
(* mnl_attr_nest_start(nlh, t) carries NLA_F_NESTED, and mnl_attr_get_type *)
(* returns the type field without its two flag bits, which is t for every  *)
(* t below 16384                                                           *)
C28_NestTypeMasked ==
    (result.done /\ call.f = "mnl_attr_nest") =>
        LET v == result.val
            t == call.a[1]
        IN  /\ v.nla_type >= NLA_F_NESTED
            /\ v.type < 16384
            /\ v.type = t % 16384
            /\ t < 16384 => v.nla_type = NLA_F_NESTED + t /\ v.type = t

C28_Witness ==
    /\ result.done
    /\ call.f = "mnl_attr_nest"
    /\ call.a[1] = 16383
    /\ result.val.nla_type = 49151
    /\ result.val.type = 16383

---------------------------------------------------------------------------
(* Claims about the iteration macros, checked under SpecAttr *)

(* C29: mnl_attr_for_each_nested, run to its end on a nest, visits exactly *)
(* the attributes that mnl_attr_parse_nested visited on that nest, and     *)
(* every attribute it visits ends at or before the end of the nest         *)
C29_ForEachNestedInsideNest ==
    walk.fn = "mnl_attr_for_each_nested" =>
        /\ \A i \in DOMAIN visited :
               visited[i].off + visited[i].at.nla_len <= walk.parent + walk.plen
        /\ RanToEnd => Offs = walk.ref

(* C30: mnl_attr_for_each, run to its end on a message with an offset,     *)
(* visits exactly the attributes that mnl_attr_parse visited on that       *)
(* message with that offset, and every attribute it visits ends at or      *)
(* before the declared length of the message                               *)
C30_ForEachInsideMessage ==
    walk.fn = "mnl_attr_for_each" =>
        /\ \A i \in DOMAIN visited :
               visited[i].off + visited[i].at.nla_len <= GetU32(abi, mem, 0)
        /\ RanToEnd => Offs = walk.ref

---------------------------------------------------------------------------
(* Claims about the alignment of the builder, checked under SpecFn *)

\* C31: after mnl_attr_put on a message under construction, for every
\* payload length, nlmsg_len is a multiple of 4, the payload tail
\* nlh + MNL_ALIGN(nlmsg_len) coincides with nlh + nlmsg_len, the attribute
\* started at a 4-byte-aligned offset, and the next attribute starts at an
\* aligned offset past the end of the record just appended, so that it does
\* not overlap it.
C31_BuilderAlignment ==
    (call.f = "mnl_attr_put" /\ result.done) =>
        LET n == call.a[2]
        IN  /\ result.val.after % MNL_ALIGNTO = 0
            /\ result.val.next = result.val.after
            /\ result.val.tail % MNL_ALIGNTO = 0
            /\ result.val.next % MNL_ALIGNTO = 0
            /\ result.val.next >= result.val.tail + MNL_ATTR_HDRLEN + n

---------------------------------------------------------------------------
(* Claims about what an append writes, checked under SpecNest *)

(* the payload bytes of the record noted as p *)
PutLen(p) ==
    CASE p.kind = "u8" -> 1
      [] p.kind = "u16" -> 2
      [] p.kind = "u32" -> 4
      [] p.kind = "u64" -> 8
      [] p.kind = "str" -> Len(p.val)
      [] p.kind = "nest" -> 0

(* the offsets of the bytes a step changes *)
Written == {i - 1 : i \in {k \in DOMAIN mem : mem'[k] # mem[k]}}

---------------------------------------------------------------------------
(* Claims about the cursor of a walk, checked under SpecAttr *)

(* mnl_attr_parse or mnl_attr_parse_nested is at its loop test or returned *)
Parsing ==
    /\ walk.fn \in {"mnl_attr_parse", "mnl_attr_parse_nested"}
    /\ walk.pc \in {"loop", "done"}

(* with less than an attribute header left the walk ends at the loop test: *)
(* no attribute is visited, whatever lies at the cursor, and the cursor    *)
(* and the value to return stay as they are                                *)
StopsUnread ==
    [][(Parsing /\ walk.pc = "loop" /\ walk.len < SizeofNlattr) =>
          /\ walk' = [walk EXCEPT !.pc = "done"]
          /\ visited' = visited]_vars

---------------------------------------------------------------------------
(* Claims about the value mnl_cb_run2 returns, checked under Spec *)

\* C34: mnl_cb_run2 returns a value >= MNL_CB_OK if and only if the scan
\* ended at the loop test, with no message left that the guard accepts,
\* no correlation failure and no handler that returned MNL_CB_STOP or less;
\* the value is then the one the last handler returned, or MNL_CB_OK when
\* no handler was invoked.
C34_OutcomeClassification ==
    /\ [][(pc = "loop" /\ pc' = "done") =>
            (ret' >= MNL_CB_OK <=>
                /\ examined' = examined
                /\ handled' = handled
                /\ \/ IntOf(numbytes) < SizeofNlmsghdr
                   \/ \E h \in HdrsAt(nlh) :
                          ~mnl_nlmsg_ok(h.nlmsg_len, IntOf(numbytes)))]_vars
    /\ [](pc = "done" =>
            /\ ret >= MNL_CB_OK <=>
                   /\ \A j \in DOMAIN handled : handled[j].r > MNL_CB_STOP
                   /\ \A i \in DOMAIN examined :
                          ~PidFails(examined[i].h) /\ ~SeqFails(examined[i].h)
            /\ ret >= MNL_CB_OK =>
                   ret = IF handled = <<>> THEN MNL_CB_OK
                         ELSE handled[Len(handled)].r)

C34_Witness ==
    /\ pc = "done"
    /\ ret = 2
    /\ Len(examined) = 2
    /\ Len(handled) = 2
    /\ handled[1].r = MNL_CB_OK
    /\ handled[2].kind = "cb_data"
    /\ IntOf(numbytes) = 0

---------------------------------------------------------------------------
(* Claims about control types without a handler, checked under Spec *)

(* the message examined as x lies inside the buffer, passes both           *)
(* correlation checks and is a control message of a type that has no       *)
(* built-in default and no handler in the caller's table                   *)
Unhandled(x) ==
    /\ ~x.far
    /\ x.off >= 0
    /\ x.h.nlmsg_len >= SizeofNlmsghdr
    /\ x.h.nlmsg_len <= numbytes0 - x.off
    /\ ~PidFails(x.h)
    /\ ~SeqFails(x.h)
    /\ x.h.nlmsg_type \in {0} \cup (5..(NLMSG_MIN_TYPE - 1))
    /\ \/ cb_ctl_array.null
       \/ x.h.nlmsg_type >= cb_ctl_array_len
       \/ x.h.nlmsg_type \notin cb_ctl_array.fn

\* C35: a valid, correlation-passing control message of type 0 or 5..15
\* for which the caller supplied no handler invokes no handler, leaves the
\* value to return and errno as they were, and mnl_cb_run2 goes on to the
\* loop test with the cursor on the message that follows it.
C35_SilentControl ==
    /\ [][(Len(examined') = Len(examined) + 1
           /\ Unhandled(examined'[Len(examined')])) =>
              LET x == examined'[Len(examined')]
              IN  /\ handled' = handled
                  /\ ret' = ret
                  /\ errno' = errno
                  /\ pc' = "loop"
                  /\ ~nlh'.far
                  /\ nlh'.off = x.off + MNL_ALIGN(x.h.nlmsg_len)]_vars
    /\ [](\A i \in DOMAIN examined :
              Unhandled(examined[i]) =>
                  /\ HandledFor(i) = {}
                  /\ i < Len(examined) =>
                         /\ ~examined[i + 1].far
                         /\ examined[i + 1].off =
                                examined[i].off
                                    + MNL_ALIGN(examined[i].h.nlmsg_len))

C35_Witness ==
    /\ Len(examined) = 2
    /\ Unhandled(examined[1])
    /\ examined[1].h.nlmsg_type = 0
    /\ ~cb_ctl_array.null
    /\ cb_ctl_array_len > 0
    /\ examined[2].off = 16
    /\ Len(handled) = 1
    /\ handled[1].msg = 2
    /\ ret = handled[1].r

====
